---- MODULE Spec2Model ----
(***************************************************************************)
(* Totalizer (m3047/rkvdns_examples, totalizers/): a model of              *)
(*   - the agent's ingestion pipeline (agent.py: UDPListener, Controller), *)
(*   - the client's windowed reconstruction (client_utils.total),          *)
(*   - the federated reconstruction (fanout.BaseName.total).               *)
(* Each part has its own specification over the shared variable list; the  *)
(* variables of the other parts stay at their idle values.                 *)
(***************************************************************************)
EXTENDS Integers, Sequences, FiniteSets, TLC

(***************************************************************************)
(* Bounds of the model and the agent's configuration.                      *)
(***************************************************************************)
\* agent_config: number of store connections = threads of the pool.
REDIS_CONNECTIONS == 2
\* agent_config: maximum depth of the queue of pending writes.
REDIS_QUEUE_MAX == 1
\* Datagrams received in one run of the model.
MaxDatagrams == 2
\* Store errors (RedisError raised by incr or expire) in one run.
MaxErrors == 1
\* Keys removed by the store because their expiry is up, in one run.
MaxExpiries == 1

None == "None"

Range(f) == {f[x] : x \in DOMAIN f}

(***************************************************************************)
(* Ingestion pipeline: state.                                              *)
(***************************************************************************)
VARIABLES
    task,        \* handle_request() tasks, by datagram number
    ndatagrams,  \* datagrams received so far
    queue,       \* Controller.queue: items [key, ttl, redis_timer]
    putters,     \* asyncio.Queue._putters: tasks suspended in put()
    pq,          \* Controller.process_queue(): [pc, update]
    semaphore,   \* Controller.semaphore: permits left
    pool,        \* work items handed to the ThreadPoolExecutor, not yet taken
    worker,      \* the pool's threads: [pc, job]
    finishq,     \* finish() coroutines scheduled on the loop, not yet run
    redisCount,  \* store: counter value per key (0: the key does not exist)
    redisTtl,    \* store: expiry per key (-1: no expiry set)
    nexpired,    \* keys the store has removed at their expiry
    ntimers,     \* redis_stats timers started so far
    attempts,    \* per redis_timer: calls of redis.incr made for it
    applied,     \* per key: increments that took effect since the key was created
    matchCalls,  \* calls of rules.match() so far
    failed,      \* redis_timers whose commit met a store error
    stopped      \* redis_timers stopped by finish()

agentVars == <<task, ndatagrams, queue, putters, pq, semaphore, pool, worker,
               finishq, redisCount, redisTtl, nexpired, ntimers, attempts,
               applied, matchCalls, failed, stopped>>

(***************************************************************************)
(* Rule engine, as far as the pipeline needs it: the rules share one       *)
(* binding; a line is the set of rules whose match expression matches it.  *)
(***************************************************************************)
Rules == <<[name |-> "A", key |-> "ka", ttl |-> 2, undefined |-> FALSE],
           [name |-> "B", key |-> "kb", ttl |-> 3, undefined |-> FALSE],
           [name |-> "K", key |-> "kk", ttl |-> 2, undefined |-> TRUE]>>

\* The keys that reach Redis: rule K's keypattern names a substitution that
\* is undefined, and its key() raises KeyError.
Keys == {Rules[i].key : i \in {j \in DOMAIN Rules : ~Rules[j].undefined}}

\* The rule's ttl, for a key the rule generates.
RuleTtl(key) == Rules[CHOOSE i \in DOMAIN Rules : Rules[i].key = key].ttl

\* The datagrams of the model, as request.split(b'\n') gives them: a line is
\* the set of the names of the rules that fire on it.
Requests == {<<{"A"}>>, <<{}, {"A", "B"}>>, <<{"B", "K"}, {"A"}>>}

\* The loop of WatchList.match() from rule i on: rule.key() is called for
\* every rule that fires, and its exception leaves match() with the pairs
\* collected so far dropped.
RECURSIVE MatchFrom(_, _)
MatchFrom(i, line) ==
    IF i > Len(Rules) THEN [exc |-> None, matches |-> <<>>]
    ELSE IF Rules[i].name \notin line THEN MatchFrom(i + 1, line)
    ELSE IF Rules[i].undefined THEN [exc |-> "KeyError", matches |-> <<>>]
    ELSE LET rest == MatchFrom(i + 1, line)
         IN  IF rest.exc # None THEN rest
             ELSE [exc |-> None,
                   matches |-> <<[key |-> Rules[i].key, ttl |-> Rules[i].ttl]>>
                               \o rest.matches]

\* WatchList.match(): the (key, ttl) pairs of the rules firing on the line,
\* in registration order, or the exception of a rule's key().
RulesMatch(line) == MatchFrom(1, line)

TaskIds == 1..MaxDatagrams
Workers == 1..REDIS_CONNECTIONS
\* The most (key, ttl) pairs one datagram of the model yields.
MaxMatches == 2
TimerIds == 1..(MaxDatagrams * MaxMatches)

NoTask == [pc |-> "none", request |-> <<>>, line |-> 0, pending |-> <<>>,
           item |-> None, outcome |-> <<>>, suspended |-> 0]

\* Controller.__init__(): asyncio.Semaphore( redis_conns+1 )
SemaphoreInit == REDIS_CONNECTIONS + 1

InitAgent ==
    /\ task = [t \in TaskIds |-> NoTask]
    /\ ndatagrams = 0
    /\ queue = <<>>
    /\ putters = <<>>
    /\ pq = [pc |-> "get", update |-> None]
    /\ semaphore = SemaphoreInit
    /\ pool = <<>>
    /\ worker = [w \in Workers |-> [pc |-> "idle", job |-> None]]
    /\ finishq = <<>>
    /\ redisCount = [k \in Keys |-> 0]
    /\ redisTtl = [k \in Keys |-> -1]
    /\ nexpired = 0
    /\ ntimers = 0
    /\ attempts = [i \in TimerIds |-> 0]
    /\ applied = [k \in Keys |-> 0]
    /\ matchCalls = 0
    /\ failed = {}
    /\ stopped = {}

(***************************************************************************)
(* UDPListener.datagram_received(): create the handle_request() task.      *)
(***************************************************************************)
datagram_received ==
    /\ ndatagrams < MaxDatagrams
    /\ \E request \in Requests :
         task' = [task EXCEPT ![ndatagrams + 1] =
                     [NoTask EXCEPT !.pc = "new", !.request = request]]
    /\ ndatagrams' = ndatagrams + 1
    /\ UNCHANGED <<queue, putters, pq, semaphore, pool, worker, finishq,
                   redisCount, redisTtl, nexpired, ntimers, attempts, applied,
                   matchCalls, failed, stopped>>

(***************************************************************************)
(* UDPListener.handle_request().  The event loop runs one coroutine at a   *)
(* time, so a task runs without interruption from where it is to its next  *)
(* suspension or to its return.  The state of a running task is a record   *)
(*   [t: the task's record, queue, putters, ntimers, matchCalls].          *)
(***************************************************************************)
\* queue_full with a fault: the comparison is strict.
queue_full_strict(q) == Len(q) > REDIS_QUEUE_MAX

\* Controller.queue_full(): self.queue.qsize() >= self.max_queue
queue_full(q) == Len(q) >= REDIS_QUEUE_MAX

\* asyncio.Queue.full(), for Queue(max_queue) with max_queue > 0.
QueueFull(q) == Len(q) >= REDIS_QUEUE_MAX

\* The task's own number: the datagram it handles.
RECURSIVE RunLines(_, _)
\* Controller.submit(): await self.queue.put(args).  asyncio.Queue.put():
\* while self.full(): (append a putter future; await it); put_nowait(item).
\* After the put the loop over the matches and the lines goes on.
QueuePut(id, st) ==
    IF QueueFull(st.queue)
      THEN [st EXCEPT !.t.pc = "blocked", !.t.suspended = @ + 1,
                      !.putters = Append(@, id)]
      ELSE RunLines(id, [st EXCEPT !.queue = Append(@, st.t.item),
                                   !.t.item = None])

\* for line in request.split(b'\n'):
\*     matched = rules.match(...)
\*     for match in matched:
\*         args = match + (self.redis_stats.start_timer(), )
\*         await self.controller.submit( *args )
\* datagram_timer.stop('processed')
RunLines(id, st) ==
    IF st.t.pending # <<>>
      THEN QueuePut(id, [st EXCEPT
               !.t.item = [key |-> Head(st.t.pending).key,
                           ttl |-> Head(st.t.pending).ttl,
                           redis_timer |-> st.ntimers + 1],
               !.t.pending = Tail(@),
               !.ntimers = @ + 1])
      ELSE IF st.t.line >= Len(st.t.request)
             THEN [st EXCEPT !.t.pc = "done",
                             !.t.outcome = Append(@, "processed")]
             ELSE LET matched == RulesMatch(st.t.request[st.t.line + 1])
                  IN  IF matched.exc # None
                        THEN \* nothing catches it: the task ends here
                             [st EXCEPT !.t.pc = "raised",
                                        !.t.line = @ + 1,
                                        !.matchCalls = @ + 1]
                        ELSE RunLines(id, [st EXCEPT
                                 !.t.line = @ + 1,
                                 !.t.pending = matched.matches,
                                 !.matchCalls = @ + 1])

\* Entry of handle_request(): the queue_full() check and
\* datagram_timer.stop('dropped').
RunHandleRequest(id, st) ==
    IF queue_full(st.queue)
      THEN [st EXCEPT !.t.pc = "done", !.t.outcome = Append(@, "dropped")]
      ELSE RunLines(id, st)

TaskState(id) == [t |-> task[id], queue |-> queue, putters |-> putters,
                  ntimers |-> ntimers, matchCalls |-> matchCalls]

SetTaskState(id, st) ==
    /\ task' = [task EXCEPT ![id] = st.t]
    /\ queue' = st.queue
    /\ putters' = st.putters
    /\ ntimers' = st.ntimers
    /\ matchCalls' = st.matchCalls

\* The task created by datagram_received() runs for the first time.
handle_request(id) ==
    /\ task[id].pc = "new"
    /\ SetTaskState(id, RunHandleRequest(id, TaskState(id)))
    /\ UNCHANGED <<ndatagrams, pq, semaphore, pool, worker, finishq,
                   redisCount, redisTtl, nexpired, attempts, applied, failed,
                   stopped>>

\* A putter whose future was resolved by get_nowait() runs again and
\* re-evaluates "while self.full()".
ResumePut(id) ==
    /\ task[id].pc = "woken"
    /\ SetTaskState(id, QueuePut(id, TaskState(id)))
    /\ UNCHANGED <<ndatagrams, pq, semaphore, pool, worker, finishq,
                   redisCount, redisTtl, nexpired, attempts, applied, failed,
                   stopped>>

(***************************************************************************)
(* Controller.process_queue(): the queue processor task.  It too runs      *)
(* from where it is to its next suspension; its state while running is     *)
(*   [pq, queue, putters, woken, semaphore, pool].                         *)
(***************************************************************************)
\* RunProcessQueue with a fault: the work is handed to the pool without waiting
\* for a permit.
RECURSIVE RunProcessQueueNoAcquire(_)
RunProcessQueueNoAcquire(st) ==
    IF st.pq.pc = "acquire"
      THEN RunProcessQueueNoAcquire([st EXCEPT
               !.pool = Append(@, st.pq.update),
               !.pq = [pc |-> "get", update |-> None]])
      ELSE IF st.queue = <<>>
             THEN st
             ELSE RunProcessQueueNoAcquire([st EXCEPT
                      !.pq = [pc |-> "acquire", update |-> Head(st.queue)],
                      !.queue = Tail(@),
                      !.woken = IF st.putters = <<>> THEN @
                                ELSE @ \cup {Head(st.putters)},
                      !.putters = IF @ = <<>> THEN @ ELSE Tail(@)])

RECURSIVE RunProcessQueue(_)
\* while True:
\*     update = await self.queue.get()         suspends on an empty queue
\*     self.queue.task_done()
\*     await self.semaphore.acquire()          suspends with no permit left
\*     self.event_loop.run_in_executor(self.pool, self.redis_update, *update)
\* get_nowait() resolves the future of the first waiting putter.
RunProcessQueue(st) ==
    IF st.pq.pc = "acquire"
      THEN IF st.semaphore = 0
             THEN st
             ELSE RunProcessQueue([st EXCEPT
                      !.semaphore = @ - 1,
                      !.pool = Append(@, st.pq.update),
                      !.pq = [pc |-> "get", update |-> None]])
      ELSE IF st.queue = <<>>
             THEN st
             ELSE RunProcessQueue([st EXCEPT
                      !.pq = [pc |-> "acquire", update |-> Head(st.queue)],
                      !.queue = Tail(@),
                      !.woken = IF st.putters = <<>> THEN @
                                ELSE @ \cup {Head(st.putters)},
                      !.putters = IF @ = <<>> THEN @ ELSE Tail(@)])

\* process_queue() is woken by put_nowait() (suspended in get) or by
\* release() (suspended in acquire) and runs.
process_queue ==
    /\ \/ pq.pc = "get" /\ queue # <<>>
       \/ pq.pc = "acquire" /\ semaphore > 0
    /\ \E st \in {RunProcessQueue([pq |-> pq, queue |-> queue,
                                   putters |-> putters, woken |-> {},
                                   semaphore |-> semaphore, pool |-> pool])} :
         /\ pq' = st.pq
         /\ queue' = st.queue
         /\ putters' = st.putters
         /\ semaphore' = st.semaphore
         /\ pool' = st.pool
         /\ task' = [t \in TaskIds |->
                       IF t \in st.woken THEN [task[t] EXCEPT !.pc = "woken"]
                       ELSE task[t]]
    /\ UNCHANGED <<ndatagrams, worker, finishq, redisCount, redisTtl,
                   nexpired, ntimers, attempts, applied, matchCalls, failed,
                   stopped>>

(***************************************************************************)
(* Controller.redis_update(), run by a thread of the pool.                 *)
(***************************************************************************)
\* asyncio.run_coroutine_threadsafe(self.finish(redis_timer), self.event_loop)
\* and the return of redis_update(): the thread is idle again.
ScheduleFinish(w, job) ==
    /\ finishq' = Append(finishq, job.redis_timer)
    /\ worker' = [worker EXCEPT ![w] = [pc |-> "idle", job |-> None]]

\* RedisIncr with a fault: a read followed by a write of the value read plus
\* one; the value read may be stale.
RedisIncrStale(key) ==
    /\ \E v \in 0..redisCount[key] :
         redisCount' = [redisCount EXCEPT ![key] = v + 1]
    /\ UNCHANGED redisTtl

\* The store's INCR: one atomic step of the store; a key that does not exist
\* is created, without expiry.
RedisIncr(key) ==
    /\ redisCount' = [redisCount EXCEPT ![key] = @ + 1]
    /\ UNCHANGED redisTtl

\* The store's EXPIRE: sets the expiry of an existing key.
RedisExpire(key, ttl) ==
    /\ redisTtl' = [redisTtl EXCEPT ![key] =
                       IF redisCount[key] > 0 THEN ttl ELSE @]
    /\ UNCHANGED redisCount

\* OnRedisError with a fault: the error is not caught; it ends the work item
\* before finish() is scheduled.
OnRedisErrorUncaught(w, job) ==
    /\ Cardinality(failed) < MaxErrors
    /\ failed' = failed \cup {job.redis_timer}
    /\ worker' = [worker EXCEPT ![w] = [pc |-> "idle", job |-> None]]
    /\ UNCHANGED <<finishq, redisCount, redisTtl>>

\* except redis.exceptions.RedisError / except Exception: the error is
\* logged, nothing is written, and control falls through to the scheduling
\* of finish().
OnRedisError(w, job) ==
    /\ Cardinality(failed) < MaxErrors
    /\ failed' = failed \cup {job.redis_timer}
    /\ ScheduleFinish(w, job)
    /\ UNCHANGED <<redisCount, redisTtl>>

\* A thread of the ThreadPoolExecutor takes the next work item and calls
\* self.redis.incr(key): the call succeeds, or raises RedisError (the expire
\* is skipped).
UpdateIncr(w) ==
    /\ worker[w].pc = "idle"
    /\ pool # <<>>
    /\ pool' = Tail(pool)
    /\ attempts' = [attempts EXCEPT ![Head(pool).redis_timer] = @ + 1]
    /\ \/ /\ RedisIncr(Head(pool).key)
          /\ applied' = [applied EXCEPT ![Head(pool).key] = @ + 1]
          /\ worker' = [worker EXCEPT ![w] = [pc |-> "expire",
                                              job |-> Head(pool)]]
          /\ UNCHANGED <<finishq, failed>>
       \/ /\ OnRedisError(w, Head(pool))
          /\ UNCHANGED applied
    /\ UNCHANGED <<task, ndatagrams, queue, putters, pq, semaphore, nexpired,
                   ntimers, matchCalls, stopped>>

\* self.redis.expire(key, ttl): succeeds, or raises RedisError; either way
\* finish() is scheduled.
UpdateExpire(w) ==
    /\ worker[w].pc = "expire"
    /\ \/ /\ RedisExpire(worker[w].job.key, worker[w].job.ttl)
          /\ ScheduleFinish(w, worker[w].job)
          /\ UNCHANGED failed
       \/ OnRedisError(w, worker[w].job)
    /\ UNCHANGED <<task, ndatagrams, queue, putters, pq, semaphore, pool,
                   nexpired, ntimers, attempts, applied, matchCalls, stopped>>

(***************************************************************************)
(* Controller.finish(): self.semaphore.release(); redis_timer.stop().      *)
(***************************************************************************)
finish ==
    /\ finishq # <<>>
    /\ semaphore' = semaphore + 1
    /\ stopped' = stopped \cup {Head(finishq)}
    /\ finishq' = Tail(finishq)
    /\ UNCHANGED <<task, ndatagrams, queue, putters, pq, pool, worker,
                   redisCount, redisTtl, nexpired, ntimers, attempts, applied,
                   matchCalls, failed>>

(***************************************************************************)
(* The store: a key whose expiry is set is removed when its time is up.    *)
(***************************************************************************)
KeyExpires(key) ==
    /\ nexpired < MaxExpiries
    /\ redisCount[key] > 0
    /\ redisTtl[key] # -1
    /\ redisCount' = [redisCount EXCEPT ![key] = 0]
    /\ redisTtl' = [redisTtl EXCEPT ![key] = -1]
    /\ applied' = [applied EXCEPT ![key] = 0]
    /\ nexpired' = nexpired + 1
    /\ UNCHANGED <<task, ndatagrams, queue, putters, pq, semaphore, pool,
                   worker, finishq, ntimers, attempts, matchCalls, failed,
                   stopped>>

(***************************************************************************)
(* Python float arithmetic (IEEE-754 binary64, round to nearest, ties to   *)
(* even) on the operands total() gives it.  A positive float is a record   *)
(*   [m: the significand's bits, most significant first, m[1] = 1,         *)
(*    e: the exponent of m[1]]                                             *)
(* and zero is [m |-> <<>>, e |-> 0].                                      *)
(***************************************************************************)
\* Bits of a float's significand.
MantissaBits == 53

RECURSIVE Pow2(_)
Pow2(n) == IF n = 0 THEN 1 ELSE 2 * Pow2(n - 1)

\* Long arithmetic on the significand is done in limbs of LimbBits bits.
LimbBits == 14

\* The last width binary digits of a natural number, most significant first.
BitsOf(n, width) == [i \in 1..width |-> (n \div Pow2(width - i)) % 2]

\* The natural number a short sequence of bits stands for.
RECURSIVE NatOf(_)
NatOf(bits) ==
    IF bits = <<>> THEN 0
    ELSE 2 * NatOf(SubSeq(bits, 1, Len(bits) - 1)) + bits[Len(bits)]

\* A sequence of bits without its leading zeros.
StripZeros(bits) ==
    IF \A i \in 1..Len(bits) : bits[i] = 0 THEN <<>>
    ELSE LET first == CHOOSE i \in 1..Len(bits) :
                          bits[i] = 1 /\ \A j \in 1..(i - 1) : bits[j] = 0
         IN  SubSeq(bits, first, Len(bits))

\* A sequence of bits as limbs, most significant first.
ToLimbs(bits) ==
    LET n      == (Len(bits) + LimbBits - 1) \div LimbBits
        pad    == n * LimbBits - Len(bits)
        padded == [i \in 1..(n * LimbBits) |->
                      IF i <= pad THEN 0 ELSE bits[i - pad]]
    IN  [j \in 1..n |->
            NatOf(SubSeq(padded, (j - 1) * LimbBits + 1, j * LimbBits))]

\* The bits of a sequence of limbs.
FromLimbs(limbs) ==
    [i \in 1..(Len(limbs) * LimbBits) |->
        BitsOf(limbs[((i - 1) \div LimbBits) + 1], LimbBits)[((i - 1) % LimbBits) + 1]]

\* limbs * v + carry, for a small natural v: schoolbook, from the last limb.
RECURSIVE MulLimbs(_, _, _)
MulLimbs(limbs, v, carry) ==
    IF limbs = <<>> THEN <<carry>>
    ELSE LET digit == limbs[Len(limbs)] * v + carry
         IN  Append(MulLimbs(SubSeq(limbs, 1, Len(limbs) - 1), v,
                             digit \div Pow2(LimbBits)),
                    digit % Pow2(LimbBits))

\* bits * v + carry as bits, without leading zeros.
MulBits(bits, v, carry) == StripZeros(FromLimbs(MulLimbs(ToLimbs(bits), v, carry)))

\* The next quotient limbs of rem / d (rem < d), enough for k bits, and the
\* remainder left after them.
RECURSIVE DivLimbs(_, _, _)
DivLimbs(rem, d, k) ==
    IF k <= 0 THEN [limbs |-> <<>>, rem |-> rem]
    ELSE LET num  == rem * Pow2(LimbBits)
             rest == DivLimbs(num % d, d, k - LimbBits)
         IN  [limbs |-> <<num \div d>> \o rest.limbs, rem |-> rest.rem]

\* At least k quotient bits of rem / d (rem < d), and the remainder left.
DivBits(rem, d, k) ==
    LET q == DivLimbs(rem, d, k)
    IN  [bits |-> FromLimbs(q.limbs), rem |-> q.rem]

\* Round the significand bits (first bit 1, at least MantissaBits of them;
\* sticky: a nonzero remainder lies beyond them) to MantissaBits bits, to
\* nearest, ties to even.  e is the exponent of the first bit.
RoundBits(bits, sticky, e) ==
    LET m     == SubSeq(bits, 1, MantissaBits)
        round == IF Len(bits) > MantissaBits THEN bits[MantissaBits + 1] ELSE 0
        more  == sticky \/ \E i \in (MantissaBits + 2)..Len(bits) : bits[i] = 1
        up    == round = 1 /\ (more \/ m[MantissaBits] = 1)
        inc   == MulBits(m, 1, 1)
    IN  IF ~up THEN [m |-> m, e |-> e]
        ELSE IF Len(inc) > MantissaBits
               THEN [m |-> SubSeq(inc, 1, MantissaBits), e |-> e + 1]
               ELSE [m |-> inc, e |-> e]

\* The exponent e with d * 2^e <= n < d * 2^(e+1), for naturals 0 < n < d.
RECURSIVE QuotExp(_, _)
QuotExp(n, d) == IF n >= d THEN 0 ELSE QuotExp(2 * n, d) - 1

\* n / d for integers 0 <= n < d (Python's true division of two ints is
\* correctly rounded).
FloatDiv(n, d) ==
    IF n = 0 THEN [m |-> <<>>, e |-> 0]
    ELSE LET e    == QuotExp(n, d)
             num  == n * Pow2(0 - e)
             q    == DivBits(num - d, d, MantissaBits + 1)
         IN  RoundBits(<<1>> \o q.bits, q.rem # 0, e)

\* float(v) * x for a natural v and a float x: the exact product, rounded.
FloatMul(v, x) ==
    IF v = 0 \/ x.m = <<>> THEN [m |-> <<>>, e |-> 0]
    ELSE LET prod == MulBits(x.m, v, 0)
         IN  RoundBits(prod, FALSE, x.e + (Len(prod) - MantissaBits))

\* int(x) for a float x >= 0: the integer part.
FloatToInt(x) ==
    IF x.m = <<>> \/ x.e < 0 THEN 0
    ELSE NatOf(SubSeq(x.m, 1, x.e + 1))

(***************************************************************************)
(* client_utils.total(): state.  One call of total() against one store.    *)
(***************************************************************************)
VARIABLES
    now,         \* total(): int(time()) at the call
    window,      \* total(): the window argument, in seconds
    store,       \* per bucket key of ScanOrder: what the store answers for it
    walk,        \* total(): [pc, pending, totals, last_bucket, last_resource, exc]
                 \* and, of its resolver, [queries, fetched]
    match_spec,  \* total(): the match_spec argument
    scan         \* what the resolver gets for the keys query

totalVars == <<now, window, store, walk, match_spec, scan>>

\* The clock at the call.
Now == 100
\* The largest value a bucket holds.
MaxValue == 90
Values == {10, MaxValue}
Windows == {0, 7, 60}

\* total()'s arguments: match_spec = ['page', None], parts = 4.
MatchSpec == <<"page", None>>
Parts == 4
Break == "Break"
Ignore == "Ignore"
MATCH_SPEC_HANDLERS == {None, Break, Ignore}
\* MATCH_SPEC_BREAK with a fault: Ignore counts as a break.
MATCH_SPEC_BREAK_Ignore == {None, Break, Ignore}
MATCH_SPEC_BREAK == {None, Break}

\* The match specs total() is called with.  The last two have no item of
\* interest.
MatchSpecs ==
    { MatchSpec, <<"page", Break, Ignore>>, <<"page", Ignore, Break>>,
      <<"page", Break, Break>>, <<"page">>, <<"page", Ignore>> }

\* What the resolver gets for the keys query: an answer, a name error, or
\* no answer in time.
ScanOutcomes == {"NOERROR", "NXDOMAIN", "Timeout"}

\* The bucket keys the prefix scan can return, split at the delimiter, in
\* the order the store lists them.
ScanOrder ==
    << [resource |-> <<"page", "a", "s1">>, ts |-> Now - 65, numeric |-> TRUE],
       [resource |-> <<"page", "a", "s1">>, ts |-> Now - 10, numeric |-> TRUE],
       [resource |-> <<"page", "a", "s2">>, ts |-> Now - 10, numeric |-> TRUE],
       [resource |-> <<"page", "a", "s1">>, ts |-> Now - 5, numeric |-> TRUE],
       [resource |-> <<"page", "b", "s1">>, ts |-> Now - 65, numeric |-> TRUE],
       \* a key of three parts, and a key whose last part is no number
       [resource |-> <<"page", "a">>, ts |-> Now - 5, numeric |-> TRUE],
       [resource |-> <<"page", "c", "s1">>, ts |-> 0, numeric |-> FALSE] >>

\* The keys of ScanOrder that are bucket keys of Parts parts.
WellFormed ==
    {i \in DOMAIN ScanOrder :
        Len(ScanOrder[i].resource) + 1 = Parts /\ ScanOrder[i].numeric}

\* What the store does with a bucket key: the key is not there at the scan
\* ("absent"); it is listed, and its fetch fails ("fail": NXDOMAIN, SERVFAIL,
\* a timeout, a key expired since the scan), succeeds with no records
\* ("empty") or succeeds with the value ("ok").
Absent == [status |-> "absent", value |-> 0]
Outcomes ==
    {Absent, [status |-> "fail", value |-> 0], [status |-> "empty", value |-> 0]}
    \cup {[status |-> "ok", value |-> v] : v \in Values}

Listed == [status |-> "ok", value |-> 10]

\* Stores of well-formed keys, with every outcome of a fetch.
Stores ==
    {s \in [DOMAIN ScanOrder -> Outcomes] :
        /\ s[5] \in {Absent, Listed}
        /\ \A i \in DOMAIN ScanOrder \ WellFormed : s[i] = Absent}

\* Stores whose keys, the malformed ones too, are there or not.
PlainStores == [DOMAIN ScanOrder -> {Absent, Listed}]

NoWalk ==
    [pc |-> "idle", pending |-> <<>>, totals |-> <<>>, last_bucket |-> 0,
     last_resource |-> <<>>, exc |-> None, queries |-> 0, fetched |-> <<>>]

IdleTotal ==
    /\ now = 0
    /\ window = 0
    /\ store = [i \in DOMAIN ScanOrder |-> Absent]
    /\ walk = NoWalk
    /\ match_spec = MatchSpec
    /\ scan = "NOERROR"

InitTotal ==
    /\ now = Now
    /\ window \in Windows
    /\ \/ /\ store \in Stores
          /\ match_spec = MatchSpec
          /\ scan = "NOERROR"
       \/ /\ store \in PlainStores
          /\ match_spec \in MatchSpecs
          /\ scan \in ScanOutcomes
    /\ walk = [NoWalk EXCEPT !.pc = "start"]

(***************************************************************************)
(* client_utils.total(): the scan, the Resources collection, the walk.     *)
(***************************************************************************)
\* A set of list positions as a list, ascending.
RECURSIVE Ascending(_)
Ascending(rest) ==
    IF rest = {} THEN <<>>
    ELSE LET least == CHOOSE i \in rest : \A j \in rest : i <= j
         IN  <<least>> \o Ascending(rest \ {least})

\* ItemOfInterest with a fault: every handled position is of interest.
ItemOfInterestAll(spec) ==
    Ascending({i \in DOMAIN spec : spec[i] \in MATCH_SPEC_HANDLERS})

\* The positions of match_spec that make up the grouping key.
ItemOfInterest(spec) ==
    Ascending({i \in DOMAIN spec :
                  spec[i] \in MATCH_SPEC_HANDLERS
                  /\ spec[i] \in MATCH_SPEC_BREAK})

\* delimiter.join(resource[item] for item in item_of_interest), unjoined.
GroupKey(resource, item_of_interest) ==
    [n \in DOMAIN item_of_interest |-> resource[item_of_interest[n]]]

\* The keys query's answer: the listed keys, in the store's order.
RECURSIVE ScanResult(_, _)
ScanResult(s, i) ==
    IF i > Len(ScanOrder) THEN <<>>
    ELSE (IF s[i].status = "absent" THEN <<>> ELSE <<ScanOrder[i]>>)
         \o ScanResult(s, i + 1)

\* Resources.append(): a key of the wrong number of parts raises ValueError,
\* which total() logs and passes over; so does int() of a last part that is
\* no number, after the resource has got its (empty) list.
ResourcesAppend(resources, bucket) ==
    IF Len(bucket.resource) + 1 # Parts THEN resources
    ELSE IF \E i \in DOMAIN resources : resources[i].resource = bucket.resource
      THEN LET i == CHOOSE i \in DOMAIN resources :
                        resources[i].resource = bucket.resource
           IN  IF bucket.numeric
                 THEN [resources EXCEPT ![i].buckets = Append(@, bucket.ts)]
                 ELSE resources
      ELSE Append(resources, [resource |-> bucket.resource,
                              buckets  |-> IF bucket.numeric THEN <<bucket.ts>>
                                                             ELSE <<>>])

RECURSIVE AppendAll(_, _)
AppendAll(resources, result) ==
    IF result = <<>> THEN resources
    ELSE AppendAll(ResourcesAppend(resources, Head(result)), Tail(result))

\* list.sort(reverse=True)
RECURSIVE SortReverse(_)
SortReverse(list) ==
    IF list = <<>> THEN <<>>
    ELSE LET i == CHOOSE i \in DOMAIN list : \A j \in DOMAIN list : list[i] >= list[j]
         IN  <<list[i]>> \o SortReverse(SubSeq(list, 1, i - 1)
                                        \o SubSeq(list, i + 1, Len(list)))

\* Resources.sort()
ResourcesSort(resources) ==
    [i \in DOMAIN resources |->
        [resources[i] EXCEPT !.buckets = SortReverse(@)]]

\* Yielded with a fault: no break after a timestamp below the window floor.
YieldedAll(k, buckets, window_floor) ==
    [i \in DOMAIN buckets |-> [resource |-> k, ts |-> buckets[i]]]

\* One resource's part of Resources.buckets(): its timestamps up to and
\* including the first one below the window floor.
RECURSIVE Yielded(_, _, _)
Yielded(k, buckets, window_floor) ==
    IF buckets = <<>> THEN <<>>
    ELSE <<[resource |-> k, ts |-> Head(buckets)]>>
         \o (IF Head(buckets) < window_floor THEN <<>>
             ELSE Yielded(k, Tail(buckets), window_floor))

\* Resources.buckets(): everything the generator yields, in order.
RECURSIVE ResourcesBuckets(_, _)
ResourcesBuckets(resources, window_floor) ==
    IF resources = <<>> THEN <<>>
    ELSE Yielded(Head(resources).resource, Head(resources).buckets, window_floor)
         \o ResourcesBuckets(Tail(resources), window_floor)

\* DictAdd with a fault: the amount replaces the total.
DictAddAssign(totals, k, n) ==
    IF \E i \in DOMAIN totals : totals[i].key = k
      THEN LET i == CHOOSE i \in DOMAIN totals : totals[i].key = k
           IN  [totals EXCEPT ![i].value = n]
      ELSE Append(totals, [key |-> k, value |-> n])

\* DictOfTotals.add()
DictAdd(totals, k, n) ==
    IF \E i \in DOMAIN totals : totals[i].key = k
      THEN LET i == CHOOSE i \in DOMAIN totals : totals[i].key = k
           IN  [totals EXCEPT ![i].value = @ + n]
      ELSE Append(totals, [key |-> k, value |-> n])

\* totals[k], 0 for a key that is not in the dictionary.
DictGet(totals, k) ==
    IF \E i \in DOMAIN totals : totals[i].key = k
      THEN totals[CHOOSE i \in DOMAIN totals : totals[i].key = k].value
      ELSE 0

DictKeys(totals) == {totals[i].key : i \in DOMAIN totals}

\* The share of a bucket opened before the window floor that is left out.
PortionOutside(last_bucket, window_floor, bucket) ==
    FloatDiv(window_floor - bucket, last_bucket - bucket)

\* portion = (last_bucket - window_floor) / (last_bucket - bucket)
Portion(last_bucket, window_floor, bucket) ==
    FloatDiv(last_bucket - window_floor, last_bucket - bucket)

\* int(value * portion)
ProRated(value, last_bucket, window_floor, bucket) ==
    FloatToInt(FloatMul(value, Portion(last_bucket, window_floor, bucket)))

\* ResetLastBucket with a fault: last_bucket is set to now once, before
\* the first resource.
ResetLastBucketOnce(st, resource, clock) ==
    IF st.last_resource = <<>> THEN clock ELSE st.last_bucket

\* ResetLastBucket with a fault: last_bucket starts from 0.
ResetLastBucketZero(st, resource, clock) ==
    IF resource # st.last_resource THEN 0 ELSE st.last_bucket

\* if resource != last_resource: last_bucket = now
ResetLastBucket(st, resource, clock) ==
    IF resource # st.last_resource THEN clock ELSE st.last_bucket

\* One turn of total()'s loop over resources.buckets(), for the yielded
\* (resource, bucket) and the store's answer to the fetch.  st is total()'s
\* local state; a turn that raises leaves the exception in st.exc.
WalkStep(st, resource, bucket, answer, clock, window_floor, item_of_interest) ==
    LET last_bucket == ResetLastBucket(st, resource, clock)
        entered == [st EXCEPT !.last_bucket = last_bucket,
                              !.last_resource = resource,
                              !.queries = @ + 1,
                              !.fetched = Append(@, [resource |-> resource,
                                                     ts |-> bucket])]
        k == GroupKey(resource, item_of_interest)
    IN  CASE answer.status = "empty" ->
               \* resolver.result is []: result[0] raises
               [entered EXCEPT !.exc = "IndexError", !.pc = "raised"]
          [] answer.status \in {"fail", "absent"} -> entered
          [] answer.status = "ok" /\ bucket >= window_floor ->
               [entered EXCEPT !.totals = DictAdd(@, k, answer.value),
                               !.last_bucket = bucket]
          [] answer.status = "ok" /\ bucket < window_floor
                                  /\ last_bucket < window_floor -> entered
          [] OTHER ->
               [entered EXCEPT !.totals =
                   DictAdd(@, k, ProRated(answer.value, last_bucket,
                                          window_floor, bucket))]

\* The store's answer to the fetch of a yielded bucket key.
Answer(s, key) ==
    s[CHOOSE i \in WellFormed : /\ ScanOrder[i].resource = key.resource
                                /\ ScanOrder[i].ts = key.ts]

\* TotalScan with a fault: a keys query that does not succeed raises.
TotalScanRaises(st, s, clock, w) ==
    IF ItemOfInterest(match_spec) = <<>>
      THEN [st EXCEPT !.pc = "raised", !.exc = "SpecError"]
      ELSE IF scan # "NOERROR"
        THEN [st EXCEPT !.pc = "raised", !.exc = scan, !.queries = @ + 1]
        ELSE [st EXCEPT
                !.pc = "walk",
                !.queries = @ + 1,
                !.pending = ResourcesBuckets(
                    ResourcesSort(AppendAll(<<>>, ScanResult(s, 1))), clock - w)]

\* total() up to its loop: match_spec, the keys query, the Resources.
TotalScan(st, s, clock, w) ==
    IF ItemOfInterest(match_spec) = <<>>
      THEN [st EXCEPT !.pc = "raised", !.exc = "SpecError"]
      ELSE IF scan # "NOERROR"
        THEN \* return dict()
             [st EXCEPT !.pc = "returned", !.queries = @ + 1]
        ELSE [st EXCEPT
                !.pc = "walk",
                !.queries = @ + 1,
                !.pending = ResourcesBuckets(
                    ResourcesSort(AppendAll(<<>>, ScanResult(s, 1))), clock - w)]

total_scan ==
    /\ walk.pc = "start"
    /\ walk' = TotalScan(walk, store, now, window)
    /\ UNCHANGED <<now, window, store, match_spec, scan>>

\* One turn of the loop.
total_fetch ==
    /\ walk.pc = "walk"
    /\ walk.pending # <<>>
    /\ LET next == Head(walk.pending)
           st   == [walk EXCEPT !.pending = Tail(@)]
       IN  walk' = WalkStep(st, next.resource, next.ts, Answer(store, next),
                            now, now - window, ItemOfInterest(match_spec))
    /\ UNCHANGED <<now, window, store, match_spec, scan>>

\* return totals
total_return ==
    /\ walk.pc = "walk"
    /\ walk.pending = <<>>
    /\ walk' = [walk EXCEPT !.pc = "returned"]
    /\ UNCHANGED <<now, window, store, match_spec, scan>>

\* total() run to its end against store s at clock with window w: its local
\* state at the return or at the raise.
RECURSIVE RunWalk(_, _, _, _)
RunWalk(st, s, clock, w) ==
    IF st.pc # "walk" THEN st
    ELSE IF st.pending = <<>> THEN [st EXCEPT !.pc = "returned"]
    ELSE LET next == Head(st.pending)
         IN  RunWalk(WalkStep([st EXCEPT !.pending = Tail(@)], next.resource,
                              next.ts, Answer(s, next), clock, clock - w,
                              ItemOfInterest(match_spec)),
                     s, clock, w)

RunTotal(s, clock, w) ==
    RunWalk(TotalScan([NoWalk EXCEPT !.pc = "start"], s, clock, w), s, clock, w)

(***************************************************************************)
(* fanout.BaseName: one call of BaseName.total() on a rendezvous name.     *)
(***************************************************************************)
VARIABLES
    ptr,         \* the PTR answer for the rendezvous name: the locations
    located,     \* per location: what client_utils.total() does against it
    direct,      \* what client_utils.total() does against the name itself
    fan,         \* BaseName.total(): [pc, fanout_, threads, results, iter,
                 \*                    counts, exc], whether fanout_ is set
                 \* (cached), the tasks submitted and the names
                 \* client_utils.total() was called against (calls)
    lookup       \* how the PTR lookup of the rendezvous name ends

fanVars == <<ptr, located, direct, fan, lookup>>

\* The rendezvous name.
Fqdn == "rendezvous"
\* The PTR lookup raises, is answered with another code than NOERROR, or is
\* answered NOERROR (with the PTR records of ptr, if any).
Lookups == {"exception", "SERVFAIL", "NOERROR"}

\* The most locations a rendezvous name resolves to.
MaxLocations == 3
ServerNames == <<"s1", "s2", "s3", "s4", "s5">>
Servers == {ServerNames[i] : i \in 1..MaxLocations}

\* PTR answers: the first n locations, n = 0 for a name that is a single
\* store's own domain (or a failed lookup).
PtrAnswers == {SubSeq(ServerNames, 1, n) : n \in 0..MaxLocations}

\* What one single-store total() gives: a dictionary of totals, or a raise.
StoreResults ==
    { [exc |-> None, totals |-> <<>>],
      [exc |-> None, totals |-> <<[key |-> <<"a">>, value |-> 3]>>],
      [exc |-> None, totals |-> <<[key |-> <<"a">>, value |-> 4],
                                  [key |-> <<"b">>, value |-> 1]>>],
      [exc |-> "IndexError", totals |-> <<>>] }

NoFan ==
    [pc |-> "idle", fanout_ |-> <<>>, threads |-> {}, results |-> <<>>,
     iter |-> <<>>, counts |-> <<>>, exc |-> None, cached |-> FALSE,
     submitted |-> 0, calls |-> <<>>]

IdleFanout ==
    /\ ptr = <<>>
    /\ located = [s \in Servers |-> [exc |-> None, totals |-> <<>>]]
    /\ direct = [exc |-> None, totals |-> <<>>]
    /\ fan = NoFan
    /\ lookup = "NOERROR"

InitFanout ==
    /\ lookup \in Lookups
    /\ ptr \in PtrAnswers
    /\ lookup # "NOERROR" => ptr = <<>>
    /\ located \in [Servers -> StoreResults]
    /\ direct \in StoreResults
    /\ fan = [NoFan EXCEPT !.pc = "start"]

\* Python values met by the loop of BaseName.total().
PyStr(text) == [type |-> "str", v |-> text]
PyDict(d) == [type |-> "dict", v |-> d]

\* Iterating a dict yields its keys, in insertion order.
DictIter(d) == [i \in DOMAIN d |-> PyStr(d[i].key)]

\* dict[k] = v
DictSet(d, k, v) ==
    IF \E i \in DOMAIN d : d[i].key = k
      THEN [d EXCEPT ![CHOOSE i \in DOMAIN d : d[i].key = k].value = v]
      ELSE Append(d, [key |-> k, value |-> v])

\* counts.add(k, v) for every (k, v) of a dictionary of totals
RECURSIVE AddItems(_, _)
AddItems(counts, items) ==
    IF items = <<>> THEN counts
    ELSE AddItems(DictAdd(counts, Head(items).key, Head(items).value),
                  Tail(items))

\* The fanout property: fanout_ is set to [] when the lookup raises or is
\* not answered NOERROR, and to the PTR records when there are some; it
\* stays None when the answer has none.
FanoutProperty(outcome, answer) ==
    IF outcome # "NOERROR" THEN [fanout_ |-> <<>>, cached |-> TRUE]
    ELSE IF answer # <<>> THEN [fanout_ |-> answer, cached |-> TRUE]
    ELSE [fanout_ |-> <<>>, cached |-> FALSE]

\* HasFanout with a fault: "if self.fanout is not None".
HasFanoutNotNone(f) == f.cached

\* if self.fanout: a list that is not empty
HasFanout(f) == f.cached /\ f.fanout_ # <<>>

\* BaseName.total() to the branch on self.fanout; in map(), every location's
\* task is submitted.
fan_lookup ==
    /\ fan.pc = "start"
    /\ LET f == FanoutProperty(lookup, ptr)
       IN  fan' = IF HasFanout(f)
                    THEN [fan EXCEPT !.pc = "map", !.fanout_ = f.fanout_,
                                     !.cached = f.cached,
                                     !.threads = Range(f.fanout_),
                                     !.submitted = Len(f.fanout_)]
                    ELSE [fan EXCEPT !.pc = "direct", !.fanout_ = f.fanout_,
                                     !.cached = f.cached]
    /\ UNCHANGED <<ptr, located, direct, lookup>>

\* The else branch: client_utils.total() against the name itself.
fan_direct ==
    /\ fan.pc = "direct"
    /\ fan' = IF direct.exc # None
                THEN [fan EXCEPT !.pc = "raised", !.exc = direct.exc,
                                 !.calls = Append(@, Fqdn)]
                ELSE [fan EXCEPT !.pc = "return", !.counts = direct.totals,
                                 !.calls = Append(@, Fqdn)]
    /\ UNCHANGED <<ptr, located, direct, lookup>>

\* The locations of a list that are in a set, in the list's order.
RECURSIVE Remaining(_, _)
Remaining(list, servers) ==
    IF list = <<>> THEN <<>>
    ELSE (IF Head(list) \in servers THEN <<Head(list)>> ELSE <<>>)
         \o Remaining(Tail(list), servers)

\* map(): a location's thread completes and as_completed() hands it over;
\* thread.result() returns the thread's result or raises what it raised.
as_completed(server) ==
    /\ fan.pc = "map"
    /\ server \in fan.threads
    /\ fan' = IF located[server].exc # None
                THEN \* the executor is shut down, which waits for the
                     \* threads still running, and the exception goes on
                     [fan EXCEPT !.pc = "raised", !.exc = located[server].exc,
                                 !.threads = {},
                                 !.calls = Append(@, server)
                                     \o Remaining(fan.fanout_,
                                                  fan.threads \ {server})]
                ELSE [fan EXCEPT
                        !.threads = @ \ {server},
                        !.calls = Append(@, server),
                        !.results = DictSet(@, server, located[server].totals)]
    /\ UNCHANGED <<ptr, located, direct, lookup>>

\* map() returns results; BaseName.total() starts its loop over them.
map_return ==
    /\ fan.pc = "map"
    /\ fan.threads = {}
    /\ fan' = [fan EXCEPT !.pc = "reduce", !.iter = DictIter(fan.results)]
    /\ UNCHANGED <<ptr, located, direct, lookup>>

\* One turn of "for server_result in ...": server_result.items()
fan_reduce ==
    /\ fan.pc = "reduce"
    /\ fan.iter # <<>>
    /\ LET server_result == Head(fan.iter)
       IN  fan' = IF server_result.type # "dict"
                    THEN [fan EXCEPT !.pc = "raised", !.exc = "AttributeError"]
                    ELSE [fan EXCEPT !.iter = Tail(@),
                                     !.counts = AddItems(@, server_result.v)]
    /\ UNCHANGED <<ptr, located, direct, lookup>>

\* return counts
fan_return ==
    /\ \/ fan.pc = "return"
       \/ fan.pc = "reduce" /\ fan.iter = <<>>
    /\ fan' = [fan EXCEPT !.pc = "returned"]
    /\ UNCHANGED <<ptr, located, direct, lookup>>

(***************************************************************************)
(* agent_utils.WatchRule: key generation with a rotating timestamp.        *)
(* time() is a float; the clock runs in ticks of half a second, so that    *)
(* int() of a timestamp and of ttl / buckets truncates.  key() runs        *)
(* without suspending: WatchList.match() is called from handle_request()   *)
(* with no await between the two.                                          *)
(***************************************************************************)
VARIABLES
    clock,       \* time(), in ticks
    rule,        \* the WatchRule: [substitutions, start_ts, bucket_time]
    generated    \* the last two calls of key(), the older one first

ruleVars == <<clock, rule, generated>>

TicksPerSecond == 2
MaxClock == 6

\* A text (a keypattern, a literal, the value of a substitution, a key) is
\* the sequence of its characters; a run of characters that are none of
\* < > { } may be written as one of them.  The substitutions are a function
\* whose domain is the names that are defined.

\* the keypattern '<prefix>;<matched>{;<start_ts>}<baz>' as parse_keypattern()
\* leaves it; <baz> is only there in the rules that name it
Token(spec, value) == [spec |-> spec, value |-> value]

KeypatternOf(with_baz) ==
    << Token("SUBSTITUTION", "prefix"), Token("LITERAL", <<";">>),
       Token("SUBSTITUTION", "matched"),
       [spec |-> "OPTIONAL", substitution |-> "start_ts",
        value |-> << Token("LITERAL", <<";">>),
                     Token("SUBSTITUTION", "start_ts") >>] >>
    \o (IF with_baz THEN << Token("SUBSTITUTION", "baz") >> ELSE <<>>)

\* The rules: 5 / 2 and 1 / 2 do not divide, a rule without buckets has one
\* bucket of ttl seconds, and one rule does not define start_ts.
RuleConfigs ==
    { [ttl |-> 5, buckets |-> 2, rotating |-> TRUE, with_baz |-> FALSE],
      [ttl |-> 1, buckets |-> 2, rotating |-> TRUE, with_baz |-> FALSE],
      [ttl |-> 2, buckets |-> 0, rotating |-> TRUE, with_baz |-> TRUE],
      [ttl |-> 5, buckets |-> 2, rotating |-> FALSE, with_baz |-> FALSE] }

\* dict.update()
DictUpdate(substitutions, updates) ==
    [n \in DOMAIN substitutions \cup DOMAIN updates |->
        IF n \in DOMAIN updates THEN updates[n] ELSE substitutions[n]]

\* if 'buckets' in substitutions and substitutions['buckets']:
\*     int(substitutions['ttl'] / substitutions['buckets'])
\* else: int(substitutions['ttl'])
BucketTime(substitutions) ==
    IF "buckets" \in DOMAIN substitutions /\ substitutions["buckets"] # 0
      THEN substitutions["ttl"] \div substitutions["buckets"]
      ELSE substitutions["ttl"]

\* WatchRule.__init__(): ttl and buckets are substitutions as any other;
\* start_ts is a key of the substitutions (with the value None) when the
\* rule defines it; self.start_ts is None (has_ts is FALSE) until new_ts()
\* sets it.
WatchRule(config) ==
    LET substitutions ==
            DictUpdate([prefix |-> <<"p">>, ttl |-> config.ttl],
              DictUpdate(
                IF config.buckets # 0 THEN [buckets |-> config.buckets]
                                      ELSE <<>>,
                IF config.rotating THEN [start_ts |-> <<None>>] ELSE <<>>))
    IN  [ substitutions |-> substitutions,
          start_ts |-> 0,
          has_ts |-> FALSE,
          bucket_time |-> BucketTime(substitutions),
          keypattern |-> KeypatternOf(config.with_baz) ]

\* The fields a transform hands to key(): the default one yields "matched",
\* and a transform of the configuration may put any other name into its
\* dictionary, start_ts and ttl among them.
Updates ==
    { [matched |-> <<"x">>], [matched |-> <<"z">>, baz |-> <<"z">>],
      [matched |-> <<"x">>, start_ts |-> <<"9">>],
      [matched |-> <<"x">>, ttl |-> 3] }

\* TokenEmit with a fault: a name that is not defined emits nothing.
TokenEmitLenient(tok, substitutions) ==
    IF tok.spec = "SUBSTITUTION"
      THEN IF tok.value \notin DOMAIN substitutions
             THEN [exc |-> None, text |-> <<>>]
             ELSE [exc |-> None, text |-> substitutions[tok.value]]
      ELSE [exc |-> None, text |-> tok.value]

\* Token.emit(): [exc, text]
TokenEmit(tok, substitutions) ==
    IF tok.spec = "SUBSTITUTION"
      THEN IF tok.value \notin DOMAIN substitutions
             THEN [exc |-> "KeyError", text |-> <<>>]
             ELSE [exc |-> None, text |-> substitutions[tok.value]]
      ELSE [exc |-> None, text |-> tok.value]

\* ''.join() of the tokens' emissions; the first exception goes on
RECURSIVE JoinTokens(_, _)
JoinTokens(tokens, substitutions) ==
    IF tokens = <<>> THEN [exc |-> None, text |-> <<>>]
    ELSE LET first == TokenEmit(Head(tokens), substitutions)
             rest == JoinTokens(Tail(tokens), substitutions)
         IN  IF first.exc # None THEN first
             ELSE IF rest.exc # None THEN rest
             ELSE [exc |-> None, text |-> first.text \o rest.text]

\* OptionalToken.emit()
OptionalTokenEmit(tok, substitutions) ==
    IF tok.substitution \notin DOMAIN substitutions
      THEN [exc |-> None, text |-> <<>>]
      ELSE JoinTokens(tok.value, substitutions)

RECURSIVE EmitAll(_, _)
EmitAll(tokens, substitutions) ==
    IF tokens = <<>> THEN [exc |-> None, text |-> <<>>]
    ELSE LET first == IF Head(tokens).spec = "OPTIONAL"
                        THEN OptionalTokenEmit(Head(tokens), substitutions)
                        ELSE TokenEmit(Head(tokens), substitutions)
             rest == EmitAll(Tail(tokens), substitutions)
         IN  IF first.exc # None THEN first
             ELSE IF rest.exc # None THEN rest
             ELSE [exc |-> None, text |-> first.text \o rest.text]

\* WatchRule.generate_key()
generate_key(r) == EmitAll(r.keypattern, r.substitutions)

\* str(int(start_ts))
RenderTs(ts) == <<ToString(ts \div TicksPerSecond)>>

\* WatchRule.new_ts(), time() giving t
new_ts(r, t) ==
    [r EXCEPT !.start_ts = t, !.has_ts = TRUE,
              !.substitutions["start_ts"] = RenderTs(t)]

\* not self.start_ts or (time() - self.start_ts) > self.bucket_time
BucketOver(r, t) ==
    ~r.has_ts \/ (t - r.start_ts) > r.bucket_time * TicksPerSecond

\* WatchRule.key(**updates): time() gives t1 in the check and t2 in new_ts()
WatchRuleKey(r, updates, t1, t2) ==
    LET updated == [r EXCEPT !.substitutions = DictUpdate(@, updates)]
        refresh == "start_ts" \in DOMAIN updated.substitutions
                   /\ BucketOver(updated, t1)
        after == IF refresh THEN new_ts(updated, t2) ELSE updated
    IN  [rule |-> after, refreshed |-> refresh, result |-> generate_key(after)]

IdleRule ==
    /\ clock = TicksPerSecond
    /\ rule = WatchRule([ttl |-> 5, buckets |-> 2, rotating |-> TRUE,
                         with_baz |-> FALSE])
    /\ generated = <<>>

InitRule ==
    /\ clock = TicksPerSecond
    /\ \E config \in RuleConfigs : rule = WatchRule(config)
    /\ generated = <<>>

\* The clock moves on between two calls of key().
tick ==
    /\ clock < MaxClock
    /\ clock' = clock + 1
    /\ UNCHANGED <<rule, generated>>

\* One call of key() from handle_request(datagram), through
\* WatchList.match(); the clock may move between the two reads of time().
rule_key(datagram, updates, later) ==
    /\ clock + later <= MaxClock
    /\ LET call == WatchRuleKey(rule, updates, clock, clock + later)
           this == [datagram |-> datagram, at |-> clock, fields |-> updates,
                    had_ts |-> rule.has_ts, before_ts |-> rule.start_ts,
                    refreshed |-> call.refreshed,
                    exc |-> call.result.exc, key |-> call.result.text,
                    start_ts |-> call.rule.start_ts,
                    ts |-> IF "start_ts" \in DOMAIN call.rule.substitutions
                             THEN call.rule.substitutions["start_ts"]
                             ELSE <<>>]
       IN  /\ rule' = call.rule
           /\ generated' = IF generated = <<>> THEN <<this>>
                            ELSE <<generated[Len(generated)], this>>
    /\ clock' = clock + later

(***************************************************************************)
(* agent_utils.WatchList.rule() and WatchRule.parse_keypattern(): a rule   *)
(* is defined from a keypattern and a key is generated from it.            *)
(***************************************************************************)
VARIABLES
    template,    \* the keypattern handed to WatchList.rule()
    watchlist,   \* the WatchList: [rules, port_rules], and how the calls of
                 \* rule() so far ended (raised)
    keyed        \* the calls of key() on the rule defined: [fields, exc, text]

parseVars == <<template, watchlist, keyed>>

MaxPieces == 5

\* The keypatterns are made of at most MaxPieces of these.
Pieces ==
    { <<"<">>, <<">">>, <<"{">>, <<"}">>, <<";">>,
      <<"<", "a", ">">>, <<"<", "b", ">">> }

RECURSIVE Flatten(_)
Flatten(pieces) ==
    IF pieces = <<>> THEN <<>> ELSE Head(pieces) \o Flatten(Tail(pieces))

Templates ==
    UNION { {Flatten(ps) : ps \in [1..n -> Pieces]} : n \in 0..MaxPieces }

\* [^{}<>]
Ordinary(c) == c \notin {"<", ">", "{", "}"}

\* The length of the longest run of [^{}<>] that starts at p.
RECURSIVE Run(_, _)
Run(s, p) ==
    IF p > Len(s) \/ ~Ordinary(s[p]) THEN 0 ELSE 1 + Run(s, p + 1)

\* The place of the first } at p or after it, 0 if there is none.
RECURSIVE Closing(_, _)
Closing(s, p) ==
    IF p > Len(s) THEN 0
    ELSE IF s[p] = "}" THEN p ELSE Closing(s, p + 1)

\* A name as the key of a dict.
RECURSIVE Concat(_)
Concat(cs) == IF cs = <<>> THEN "" ELSE Head(cs) \o Concat(Tail(cs))

\* OptionalToken with a fault: a group without a substitution is accepted.
OptionalTokenUnchecked(items) ==
    LET subs == {i \in DOMAIN items : items[i].spec = "SUBSTITUTION"}
    IN  [exc |-> None,
         token |-> [spec |-> "OPTIONAL", value |-> items,
                    substitution |->
                        IF subs = {} THEN ""
                        ELSE items[CHOOSE i \in subs :
                                     \A j \in subs : i <= j].value]]

\* OptionalToken.__init__(): the group's substitution is the first one among
\* its tokens.
OptionalToken(items) ==
    LET subs == {i \in DOMAIN items : items[i].spec = "SUBSTITUTION"}
    IN  IF subs = {} THEN [exc |-> "ParseError", token |-> <<>>]
        ELSE [exc |-> None,
              token |-> [spec |-> "OPTIONAL", value |-> items,
                         substitution |->
                             items[CHOOSE i \in subs :
                                     \A j \in subs : i <= j].value]]

\* re.finditer(context, pattern) from place p on, and the loop over its
\* matches: the alternatives are tried in the order SUBSTITUTION, OPTIONAL
\* (in the outer context only), LITERAL, BAD.
RECURSIVE ParseFrom(_, _, _)
ParseFrom(s, p, outer) ==
    IF p > Len(s) THEN [exc |-> None, items |-> <<>>]
    ELSE
      LET n == Run(s, p + 1)
          q == Closing(s, p + 1)
          Then(token, next) ==
              LET rest == ParseFrom(s, next, outer)
              IN  IF rest.exc # None THEN rest
                  ELSE [exc |-> None, items |-> <<token>> \o rest.items]
      IN  IF s[p] = "<" /\ n >= 1 /\ p + n + 1 <= Len(s) /\ s[p + n + 1] = ">"
            THEN Then(Token("SUBSTITUTION", Concat(SubSeq(s, p + 1, p + n))),
                      p + n + 2)
          ELSE IF outer /\ s[p] = "{" /\ q >= p + 2
            THEN LET inner == ParseFrom(SubSeq(s, p + 1, q - 1), 1, FALSE)
                     group == OptionalToken(inner.items)
                 IN  IF inner.exc # None THEN [exc |-> inner.exc, items |-> <<>>]
                     ELSE IF group.exc # None
                       THEN [exc |-> group.exc, items |-> <<>>]
                     ELSE Then(group.token, q + 1)
          ELSE IF Ordinary(s[p])
            THEN Then(Token("LITERAL", SubSeq(s, p, p + Run(s, p) - 1)),
                      p + Run(s, p))
          ELSE [exc |-> "ParseError", items |-> <<>>]

\* WatchRule.parse_keypattern(pattern): [exc, items]
parse_keypattern(pattern) == ParseFrom(pattern, 1, TRUE)

\* The binding of the rules that the defaults of the tests give.
Binding == "1.1.1.1:3047"

\* The arguments of rules.rule() in the tests, after the defaults:
\* matchex='x' matches the lines that hold an x.
TestRule(pattern) ==
    [keypattern |-> pattern, binding |-> Binding, ttl |-> 1, buckets |-> 0,
     rotating |-> FALSE, others |-> [matchex |-> {"x"}]]

EmptyWatchList == [rules |-> <<>>, port_rules |-> <<>>, raised |-> <<>>]

\* DictOfLists.append()
DictOfListsAppend(d, k, v) ==
    [x \in DOMAIN d \cup {k} |->
        IF x = k THEN (IF k \in DOMAIN d THEN Append(d[k], v) ELSE <<v>>)
        ELSE d[x]]

\* WatchList.rule(): the rule is appended to rules and to the list of its
\* binding once WatchRule() has returned; the match expression (the set of
\* the lines it matches), the transform and the prefix are substitutions
\* as any other.
WatchListRule(w, definition) ==
    LET parsed == parse_keypattern(definition.keypattern)
        r == [WatchRule([ttl |-> definition.ttl,
                         buckets |-> definition.buckets,
                         rotating |-> definition.rotating,
                         with_baz |-> FALSE])
                EXCEPT !.keypattern = parsed.items,
                       !.substitutions = DictUpdate(@, definition.others)]
    IN  IF parsed.exc # None
          THEN [w EXCEPT !.raised = Append(@, parsed.exc)]
          ELSE [w EXCEPT !.rules = Append(@, r),
                         !.port_rules =
                             DictOfListsAppend(@, definition.binding,
                                               Len(w.rules) + 1),
                         !.raised = Append(@, None)]

\* The values the fields a and b may have when the key is generated: a value
\* may be empty, and it may hold the delimiter.
FieldValues ==
    { f \in UNION {[names -> {<<>>, <<"v">>, <<"v", ";", "w">>}]
                     : names \in SUBSET {"a", "b"}} :
        "b" \in DOMAIN f => f["b"] = <<"v">> }

IdleParse ==
    /\ template = <<>>
    /\ watchlist = EmptyWatchList
    /\ keyed = <<>>

InitParse ==
    /\ template \in Templates
    /\ watchlist = EmptyWatchList
    /\ keyed = <<>>

\* rules.rule(keypattern=template)
watchlist_rule ==
    /\ watchlist.raised = <<>>
    /\ watchlist' = WatchListRule(watchlist, TestRule(template))
    /\ UNCHANGED <<template, keyed>>

\* rules.rules[0].key(**fields)
watchlist_key(fields) ==
    /\ watchlist.rules # <<>>
    /\ keyed = <<>>
    /\ LET call == WatchRuleKey(watchlist.rules[1], fields, clock, clock)
       IN  /\ watchlist' = [watchlist EXCEPT !.rules[1] = call.rule]
           /\ keyed' = <<[fields |-> fields, exc |-> call.result.exc,
                          text |-> call.result.text]>>
    /\ UNCHANGED template

(***************************************************************************)
(* agent_utils.WatchList.match(): the rules of a binding are tried on a     *)
(* line.                                                                   *)
(***************************************************************************)
VARIABLES
    matched      \* the last call of match(): its arguments, what it
                 \* returned or raised, and the rules as they were before

matchVars == <<matched>>

\* Two bindings with rules and one without.
Bindings == {"127.0.0.1:3430", "127.0.0.1:3431", "127.0.0.1:3432"}

\* The lines: a match expression is the set of the lines it matches, and
\* group(1) of a match is the line.
Lines == {"l1", "l2", "l12", "l0"}

\* The transforms: the default one, one that returns None for the line l12,
\* one that returns an empty dictionary for it and one that raises an
\* exception on it.
Postprocs == {"default", "none", "empty", "raises"}

\* The rules of the configuration, in the order of their definition: two
\* under the first binding, the first of them with a rotating timestamp
\* and one of the transforms, and one under the second binding.
RuleDefinitions(postproc) ==
    << [keypattern |-> <<"<", "prefix", ">",
                         "{", ";", "<", "start_ts", ">", "}">>,
        binding |-> "127.0.0.1:3430", ttl |-> 3, buckets |-> 2,
        rotating |-> TRUE,
        others |-> DictUpdate([prefix |-> <<"p">>, matchex |-> {"l1", "l12"}],
                              IF postproc = "default" THEN <<>>
                              ELSE [postproc |-> postproc])],
       [keypattern |-> <<"<", "prefix", ">", ";", "<", "matched", ">">>,
        binding |-> "127.0.0.1:3430", ttl |-> 3, buckets |-> 0,
        rotating |-> FALSE,
        others |-> [prefix |-> <<"q">>, matchex |-> {"l2", "l12"}]],
       [keypattern |-> <<"<", "prefix", ">", ";", "<", "matched", ">">>,
        binding |-> "127.0.0.1:3431", ttl |-> 2, buckets |-> 0,
        rotating |-> FALSE,
        others |-> [prefix |-> <<"r">>, matchex |-> Lines]] >>

RECURSIVE DefineAll(_, _)
DefineAll(w, definitions) ==
    IF definitions = <<>> THEN w
    ELSE DefineAll(WatchListRule(w, Head(definitions)), Tail(definitions))

\* rule.substitutions['postproc'](matched), or dict(matched=matched.group(1))
\* when the rule has none: [none, fields], or the exception of the
\* transform (raised)
PostprocResult(substitutions, line) ==
    IF "postproc" \in DOMAIN substitutions /\ line = "l12"
      THEN [none |-> substitutions["postproc"] = "none", fields |-> <<>>,
            raised |-> substitutions["postproc"] = "raises"]
      ELSE [none |-> FALSE, fields |-> [matched |-> <<line>>],
            raised |-> FALSE]

\* IsNone with a fault: no result of a transform is taken for None.
IsNoneNever(kwargs) == FALSE

\* if kwargs is None: continue
IsNone(kwargs) == kwargs.none

\* The loop of WatchList.match() over the rules of the binding, from the
\* i-th of them on: [exc, matches, rules].  The handler of a transform's
\* exception calls logging.warn(), and the module does not import logging:
\* the handler raises NameError.
RECURSIVE MatchRules(_, _, _, _, _)
MatchRules(rules, indices, i, line, t) ==
    IF i > Len(indices) THEN [exc |-> None, matches |-> <<>>, rules |-> rules]
    ELSE LET r == rules[indices[i]]
             kwargs == PostprocResult(r.substitutions, line)
             call == WatchRuleKey(r, kwargs.fields, t, t)
             rest == MatchRules([rules EXCEPT ![indices[i]] = call.rule],
                                indices, i + 1, line, t)
         IN  IF line \notin r.substitutions["matchex"]
               THEN MatchRules(rules, indices, i + 1, line, t)
             ELSE IF kwargs.raised
               THEN [exc |-> "NameError", matches |-> <<>>, rules |-> rules]
             ELSE IF IsNone(kwargs)
               THEN MatchRules(rules, indices, i + 1, line, t)
             ELSE IF call.result.exc # None
               THEN [exc |-> call.result.exc, matches |-> <<>>,
                     rules |-> [rules EXCEPT ![indices[i]] = call.rule]]
             ELSE [rest EXCEPT !.matches =
                      << [key |-> call.result.text,
                          ttl |-> call.rule.substitutions["ttl"],
                          rule |-> indices[i]] >> \o @]

\* WatchList.match(address, port, message): for a binding without rules
\* "return matched" names a variable that is not assigned yet.
WatchListMatch(w, binding, line, t) ==
    IF binding \notin DOMAIN w.port_rules
      THEN [exc |-> "UnboundLocalError", matches |-> <<>>, rules |-> w.rules]
      ELSE MatchRules(w.rules, w.port_rules[binding], 1, line, t)

NoMatch == [binding |-> "", line |-> "", exc |-> None, matches |-> <<>>,
            before |-> <<>>, at |-> 0]

IdleMatch == matched = NoMatch

InitMatch ==
    /\ clock = TicksPerSecond
    /\ \E postproc \in Postprocs :
         watchlist = DefineAll(EmptyWatchList, RuleDefinitions(postproc))
    /\ matched = NoMatch

\* rules.match(address, port, line), as handle_request() calls it for a
\* line of a datagram
watchlist_match(binding, line) ==
    /\ LET call == WatchListMatch(watchlist, binding, line, clock)
       IN  /\ watchlist' = [watchlist EXCEPT !.rules = call.rules]
           /\ matched' = [binding |-> binding, line |-> line,
                          exc |-> call.exc, matches |-> call.matches,
                          before |-> watchlist.rules, at |-> clock]
    /\ UNCHANGED <<clock, rule, generated, template, keyed>>

\* Time passes between two lines.
match_tick ==
    /\ clock < MaxClock
    /\ clock' = clock + 1
    /\ UNCHANGED <<rule, generated, parseVars, matched>>

(***************************************************************************)
(* agent.main(): the statistics collectors and the listeners.              *)
(***************************************************************************)
VARIABLES
    service,     \* main(): the STATS of the configuration, the testing
                 \* argument, how far main() has come, and the collectors
                 \* it has given the listener
    stdout       \* per key: how often redis_update() has printed it

mainVars == <<service, stdout>>

\* STATS of the configuration: the seconds between two reports, or None
StatsSettings == {None, "60"}

\* A name of main() that no statement has assigned yet.
Unbound == "unbound"

\* main() up to the loop over the bindings: with STATS the two collectors
\* are made, without it statistics and datagram_stats are None and nothing
\* is assigned to redis_stats.
Collectors(stats) ==
    IF stats # None
      THEN [datagram_stats |-> "Collector", redis_stats |-> "Collector"]
      ELSE [datagram_stats |-> None, redis_stats |-> Unbound]

IdleMain ==
    /\ service = [STATS |-> "60", testing |-> FALSE, pc |-> "run_forever",
                  datagram_stats |-> "Collector",
                  redis_stats |-> "Collector"]
    /\ stdout = [k \in Keys |-> 0]

\* main(testing): +testing on the command line or not
InitMain ==
    /\ \E stats \in StatsSettings, testing \in BOOLEAN :
         service = [STATS |-> stats, testing |-> testing, pc |-> "main",
                    datagram_stats |-> None, redis_stats |-> None]
    /\ stdout = [k \in Keys |-> 0]

\* RedisIsNone with a fault: the Controller connects to the store in
\* testing mode too.
RedisIsNoneNever == FALSE

\* Controller.__init__(): if testing: self.redis = None
RedisIsNone == service.testing

\* redis_update() with self.redis None: a thread of the pool takes the
\* next work item, prints its key and schedules finish().
UpdatePrint(w) ==
    /\ worker[w].pc = "idle"
    /\ pool # <<>>
    /\ pool' = Tail(pool)
    /\ attempts' = [attempts EXCEPT ![Head(pool).redis_timer] = @ + 1]
    /\ stdout' = [stdout EXCEPT ![Head(pool).key] = @ + 1]
    /\ ScheduleFinish(w, Head(pool))
    /\ UNCHANGED <<task, ndatagrams, queue, putters, pq, semaphore, nexpired,
                   ntimers, matchCalls, stopped, redisCount, redisTtl,
                   applied, failed, service>>

\* main(): the loop over rules.port_rules.keys() gives the listener of each
\* binding its collectors (the configuration has a rule, so there is a
\* binding); reading a name that is not bound raises UnboundLocalError and
\* main() ends before event_loop.run_forever().
main ==
    /\ service.pc = "main"
    /\ LET made == Collectors(service.STATS)
       IN  service' =
             IF made.redis_stats = Unbound
               THEN [service EXCEPT !.pc = "UnboundLocalError",
                                    !.datagram_stats = made.datagram_stats]
               ELSE [service EXCEPT !.pc = "run_forever",
                                    !.datagram_stats = made.datagram_stats,
                                    !.redis_stats = made.redis_stats]
    /\ UNCHANGED <<agentVars, totalVars, fanVars, ruleVars, parseVars,
                   matchVars, stdout>>

(***************************************************************************)
(* client_utils.ResolverPool: threads take Resolver instances from the     *)
(* pool and give them back.  A block under self.lock is one step.          *)
(***************************************************************************)
VARIABLES
    resolver_pool,  \* the ResolverPool: [free_list, contexts] and the number
                    \* of the Resolver instances made so far
    caller          \* per thread: where it is, the Resolver it was given,
                    \* how often it has come to the pool, and the Resolver
                    \* its query() ran on, since it last came

poolVars == <<resolver_pool, caller>>

PoolThreads == {"t1", "t2", "t3"}

\* How often a thread comes to the pool.
MaxUses == 2

NoCaller == [pc |-> "out", resolver |-> 0, uses |-> 0, queried |-> 0]

\* ResolverPool.__init__()
InitPool ==
    /\ resolver_pool = [free_list |-> {}, contexts |-> <<>>, created |-> 0]
    /\ caller = [t \in PoolThreads |-> NoCaller]

\* The Resolver instances allocate() may return: one of the free ones (pop()
\* of a set takes any), or a new one when none is free.
Free(p) == IF p.free_list = {} THEN {p.created + 1} ELSE p.free_list

\* allocate() with a fault: the Resolver stays on the free list.
AllocateKept(p, resolver) ==
    [p EXCEPT !.free_list = @ \cup {resolver},
              !.created = IF resolver > @ THEN resolver ELSE @]

\* ResolverPool.allocate(), returning resolver: the pool afterwards
Allocate(p, resolver) ==
    [p EXCEPT !.free_list = @ \ {resolver},
              !.created = IF resolver > @ THEN resolver ELSE @]

\* resolver = resolver_pool.allocate()
pool_allocate(t) ==
    /\ caller[t].pc = "out"
    /\ caller[t].uses < MaxUses
    /\ \E resolver \in Free(resolver_pool) :
         /\ resolver_pool' = Allocate(resolver_pool, resolver)
         /\ caller' = [caller EXCEPT ![t].pc = "allocated",
                                     ![t].resolver = resolver,
                                     ![t].uses = @ + 1,
                                     ![t].queried = 0]

\* resolver.query(...) on the Resolver allocated, then
\* resolver_pool.free(resolver)
pool_free(t) ==
    /\ caller[t].pc = "allocated"
    /\ resolver_pool' = [resolver_pool EXCEPT
                            !.free_list = @ \cup {caller[t].resolver}]
    /\ caller' = [caller EXCEPT ![t].pc = "out",
                                ![t].queried = caller[t].resolver]

\* with resolver_pool: __enter__() up to the return of allocate()
pool_enter(t) ==
    /\ caller[t].pc = "out"
    /\ caller[t].uses < MaxUses
    /\ \E resolver \in Free(resolver_pool) :
         /\ resolver_pool' = Allocate(resolver_pool, resolver)
         /\ caller' = [caller EXCEPT ![t].pc = "__enter__",
                                     ![t].resolver = resolver,
                                     ![t].uses = @ + 1,
                                     ![t].queried = 0]

\* __enter__(): self.contexts[threading.get_ident()] = resolver
pool_context(t) ==
    /\ caller[t].pc = "__enter__"
    /\ resolver_pool' = [resolver_pool EXCEPT
                            !.contexts = DictUpdate(@, [u \in {t} |->
                                                          caller[t].resolver])]
    /\ caller' = [caller EXCEPT ![t].pc = "with"]

\* resolver_pool.query(...), .success, .result within the with block: they
\* go to self.contexts[threading.get_ident()]
pool_query(t) ==
    /\ caller[t].pc = "with"
    /\ caller' = [caller EXCEPT ![t].queried = resolver_pool.contexts[t]]
    /\ UNCHANGED resolver_pool

\* __exit__(): self.free(self.contexts[ident])
pool_exit(t) ==
    /\ caller[t].pc = "with"
    /\ resolver_pool' = [resolver_pool EXCEPT
                            !.free_list = @ \cup {resolver_pool.contexts[t]}]
    /\ caller' = [caller EXCEPT ![t].pc = "__exit__"]

\* __exit__(): del self.contexts[ident]
pool_del(t) ==
    /\ caller[t].pc = "__exit__"
    /\ resolver_pool' = [resolver_pool EXCEPT
                            !.contexts = [u \in DOMAIN @ \ {t} |-> @[u]]]
    /\ caller' = [caller EXCEPT ![t].pc = "out"]

(***************************************************************************)
(* Specifications.  Each runs one part of the program; the state of the    *)
(* other parts stays as it is when they are not running.                   *)
(***************************************************************************)
vars == <<agentVars, totalVars, fanVars, ruleVars, parseVars, matchVars,
         mainVars, poolVars>>

Init == InitAgent /\ IdleTotal /\ IdleFanout /\ IdleRule /\ IdleParse
    /\ IdleMatch /\ IdleMain /\ InitPool

Next ==
    \/ datagram_received /\ UNCHANGED <<totalVars, fanVars, ruleVars, parseVars, matchVars, mainVars, poolVars>>
    \/ \E t \in TaskIds : handle_request(t) /\ UNCHANGED <<totalVars, fanVars, ruleVars, parseVars, matchVars, mainVars, poolVars>>
    \/ \E t \in TaskIds : ResumePut(t) /\ UNCHANGED <<totalVars, fanVars, ruleVars, parseVars, matchVars, mainVars, poolVars>>
    \/ process_queue /\ UNCHANGED <<totalVars, fanVars, ruleVars, parseVars, matchVars, mainVars, poolVars>>
    \/ \E w \in Workers : UpdateIncr(w) /\ UNCHANGED <<totalVars, fanVars, ruleVars, parseVars, matchVars, mainVars, poolVars>>
    \/ \E w \in Workers : UpdateExpire(w) /\ UNCHANGED <<totalVars, fanVars, ruleVars, parseVars, matchVars, mainVars, poolVars>>
    \/ finish /\ UNCHANGED <<totalVars, fanVars, ruleVars, parseVars, matchVars, mainVars, poolVars>>
    \/ \E k \in Keys : KeyExpires(k) /\ UNCHANGED <<totalVars, fanVars, ruleVars, parseVars, matchVars, mainVars, poolVars>>

Spec == Init /\ [][Next]_vars

\* The scheduling of the agent: the event loop runs every coroutine that is
\* ready (the handlers, process_queue(), finish()), and a thread of the
\* executor that has work runs it; a call of the store returns.  The arrival
\* of datagrams and the expiry of keys are left to the environment.
Scheduling ==
    LET others == <<totalVars, fanVars, ruleVars, parseVars, matchVars,
                    mainVars, poolVars>>
    IN  /\ WF_vars(process_queue /\ UNCHANGED others)
        /\ WF_vars(finish /\ UNCHANGED others)
        /\ \A w \in Workers :
             /\ WF_vars(UpdateIncr(w) /\ UNCHANGED others)
             /\ WF_vars(UpdateExpire(w) /\ UNCHANGED others)
        /\ \A t \in TaskIds :
             /\ WF_vars(handle_request(t) /\ UNCHANGED others)
             /\ WF_vars(ResumePut(t) /\ UNCHANGED others)

SpecFair == Init /\ [][Next]_vars /\ Scheduling

InitTotalSpec == InitAgent /\ InitTotal /\ IdleFanout /\ IdleRule /\ IdleParse
    /\ IdleMatch /\ IdleMain /\ InitPool

NextTotalSpec ==
    \/ total_scan /\ UNCHANGED <<agentVars, fanVars, ruleVars, parseVars, matchVars, mainVars, poolVars>>
    \/ total_fetch /\ UNCHANGED <<agentVars, fanVars, ruleVars, parseVars, matchVars, mainVars, poolVars>>
    \/ total_return /\ UNCHANGED <<agentVars, fanVars, ruleVars, parseVars, matchVars, mainVars, poolVars>>

SpecTotal == InitTotalSpec /\ [][NextTotalSpec]_vars

InitFanoutSpec == InitAgent /\ IdleTotal /\ InitFanout /\ IdleRule /\ IdleParse
    /\ IdleMatch /\ IdleMain /\ InitPool

NextFanoutSpec ==
    \/ fan_lookup /\ UNCHANGED <<agentVars, totalVars, ruleVars, parseVars, matchVars, mainVars, poolVars>>
    \/ fan_direct /\ UNCHANGED <<agentVars, totalVars, ruleVars, parseVars, matchVars, mainVars, poolVars>>
    \/ \E server \in Servers : as_completed(server) /\ UNCHANGED <<agentVars, totalVars, ruleVars, parseVars, matchVars, mainVars, poolVars>>
    \/ map_return /\ UNCHANGED <<agentVars, totalVars, ruleVars, parseVars, matchVars, mainVars, poolVars>>
    \/ fan_reduce /\ UNCHANGED <<agentVars, totalVars, ruleVars, parseVars, matchVars, mainVars, poolVars>>
    \/ fan_return /\ UNCHANGED <<agentVars, totalVars, ruleVars, parseVars, matchVars, mainVars, poolVars>>

SpecFanout == InitFanoutSpec /\ [][NextFanoutSpec]_vars

\* The datagrams whose lines fire the rule.
Datagrams == {1, 2}

InitRuleSpec ==
    InitAgent /\ IdleTotal /\ IdleFanout /\ InitRule /\ IdleParse
    /\ IdleMatch /\ IdleMain /\ InitPool

NextRuleSpec ==
    \/ tick /\ UNCHANGED <<agentVars, totalVars, fanVars, parseVars, matchVars, mainVars, poolVars>>
    \/ \E datagram \in Datagrams, updates \in Updates, later \in {0, 1} :
         rule_key(datagram, updates, later)
         /\ UNCHANGED <<agentVars, totalVars, fanVars, parseVars, matchVars, mainVars, poolVars>>

SpecRule == InitRuleSpec /\ [][NextRuleSpec]_vars

InitParseSpec ==
    InitAgent /\ IdleTotal /\ IdleFanout /\ IdleRule /\ InitParse
    /\ IdleMatch /\ IdleMain /\ InitPool

NextParseSpec ==
    \/ watchlist_rule /\ UNCHANGED <<agentVars, totalVars, fanVars, ruleVars, matchVars, mainVars, poolVars>>
    \/ \E fields \in FieldValues :
         watchlist_key(fields)
         /\ UNCHANGED <<agentVars, totalVars, fanVars, ruleVars, matchVars, mainVars, poolVars>>

SpecParse == InitParseSpec /\ [][NextParseSpec]_vars

InitMatchSpec ==
    /\ InitAgent /\ IdleTotal /\ IdleFanout
    /\ rule = WatchRule([ttl |-> 5, buckets |-> 2, rotating |-> TRUE,
                         with_baz |-> FALSE])
    /\ generated = <<>> /\ template = <<>> /\ keyed = <<>>
    /\ InitMatch /\ IdleMain /\ InitPool

NextMatchSpec ==
    \/ match_tick /\ UNCHANGED <<agentVars, totalVars, fanVars, mainVars, poolVars>>
    \/ \E binding \in Bindings, line \in Lines :
         watchlist_match(binding, line)
         /\ UNCHANGED <<agentVars, totalVars, fanVars, mainVars, poolVars>>

SpecMatch == InitMatchSpec /\ [][NextMatchSpec]_vars

InitMainSpec ==
    InitAgent /\ IdleTotal /\ IdleFanout /\ IdleRule /\ IdleParse
    /\ IdleMatch
    /\ InitMain /\ InitPool

\* event_loop.run_forever(): the listeners receive datagrams once main()
\* has reached it.
Running == service.pc = "run_forever"

NextMainSpec ==
    LET others == <<totalVars, fanVars, ruleVars, parseVars, matchVars,
                    mainVars, poolVars>>
    IN
    \/ main /\ UNCHANGED poolVars
    \/ Running /\ datagram_received /\ UNCHANGED others
    \/ \E t \in TaskIds : Running /\ handle_request(t) /\ UNCHANGED others
    \/ \E t \in TaskIds : Running /\ ResumePut(t) /\ UNCHANGED others
    \/ Running /\ process_queue /\ UNCHANGED others
    \/ \E w \in Workers :
         Running /\ ~RedisIsNone /\ UpdateIncr(w) /\ UNCHANGED others
    \/ \E w \in Workers :
         Running /\ RedisIsNone /\ UpdatePrint(w)
         /\ UNCHANGED <<totalVars, fanVars, ruleVars, parseVars, matchVars,
                        poolVars>>
    \/ \E w \in Workers : Running /\ UpdateExpire(w) /\ UNCHANGED others
    \/ Running /\ finish /\ UNCHANGED others
    \/ \E k \in Keys : Running /\ KeyExpires(k) /\ UNCHANGED others

SpecMain == InitMainSpec /\ [][NextMainSpec]_vars

InitPoolSpec ==
    InitAgent /\ IdleTotal /\ IdleFanout /\ IdleRule /\ IdleParse
    /\ IdleMatch /\ IdleMain /\ InitPool

NextPoolSpec ==
    LET others == <<agentVars, totalVars, fanVars, ruleVars, parseVars,
                    matchVars, mainVars>>
    IN
    \/ \E t \in PoolThreads : pool_allocate(t) /\ UNCHANGED others
    \/ \E t \in PoolThreads : pool_free(t) /\ UNCHANGED others
    \/ \E t \in PoolThreads : pool_enter(t) /\ UNCHANGED others
    \/ \E t \in PoolThreads : pool_context(t) /\ UNCHANGED others
    \/ \E t \in PoolThreads : pool_query(t) /\ UNCHANGED others
    \/ \E t \in PoolThreads : pool_exit(t) /\ UNCHANGED others
    \/ \E t \in PoolThreads : pool_del(t) /\ UNCHANGED others

SpecPool == InitPoolSpec /\ [][NextPoolSpec]_vars

(***************************************************************************)
(* Properties of the ingestion pipeline.                                   *)
(***************************************************************************)
\* Commits handed to the worker pool whose finish() has not yet run.
InFlight == Len(pool) + Cardinality({w \in Workers : worker[w].pc # "idle"})
            + Len(finishq)

\* C2: a request-handling task never suspends in submit() waiting for queue
\* capacity: a submission reached with the queue at max_queue is dropped, not
\* awaited.
C2_SubmitNeverSuspends ==
    \A t \in TaskIds : task[t].pc # "blocked" /\ task[t].suspended = 0

\* C3: a datagram whose handling starts with the queue at (or above) its
\* maximum is dropped: no rule is evaluated, nothing is enqueued, the outcome
\* is recorded once as 'dropped' and never also as 'processed', and the
\* handler returns without suspending.
C3_FullQueueDropsDatagram ==
    [][\A t \in TaskIds :
         /\ (task[t].pc = "new" /\ Len(queue) >= REDIS_QUEUE_MAX
               /\ task'[t] # task[t])
              => /\ task'[t] = [task[t] EXCEPT !.pc = "done",
                                               !.outcome = <<"dropped">>]
                 /\ UNCHANGED <<queue, putters, matchCalls, ntimers>>
         /\ task[t].pc = "done" => task'[t] = task[t]]_vars

C3_Witness ==
    \E t \in TaskIds : task[t].pc = "done" /\ task[t].outcome = <<"dropped">>

\* C7: the commits handed to the worker pool whose finish() has not yet run
\* number at most REDIS_CONNECTIONS + 1, whatever the queue depth limit.
C7_InFlightBounded == InFlight <= REDIS_CONNECTIONS + 1

C7_Witness ==
    /\ InFlight = REDIS_CONNECTIONS + 1
    /\ pq.pc = "acquire"

\* C8: a commit that meets no store error increments its key's counter by
\* exactly 1 and then sets the key's expiry to the rule's TTL; with several
\* workers committing to one key no increment is lost: the counter equals the
\* number of increments made since the key was created.
C8_NoLostIncrement ==
    /\ [](\A k \in Keys : redisCount[k] = applied[k])
    /\ [][\A w \in Workers :
            /\ (worker[w].pc = "idle" /\ worker'[w].pc = "expire")
                 => \A k \in Keys :
                      redisCount'[k] = redisCount[k]
                          + (IF k = worker'[w].job.key THEN 1 ELSE 0)
            /\ (worker[w].pc = "expire" /\ worker'[w].pc = "idle"
                  /\ failed' = failed /\ redisCount[worker[w].job.key] > 0)
                 => /\ redisTtl'[worker[w].job.key]
                          = RuleTtl(worker[w].job.key)
                    /\ redisCount' = redisCount]_vars

C8_Witness ==
    \E w1, w2 \in Workers :
        /\ w1 # w2
        /\ worker[w1].pc = "expire" /\ worker[w2].pc = "expire"
        /\ worker[w1].job.key = worker[w2].job.key
        /\ redisCount[worker[w1].job.key] = 2
        /\ failed = {}

\* C9: a commit whose increment or expiry-set raises a store error is
\* abandoned and never retried (each request is attempted at most once), the
\* error reaches neither the queue processor nor another commit, and the
\* commit's permit is still released.
C9_ErrorAbandonsCommit ==
    /\ \A i \in TimerIds : attempts[i] <= 1
    /\ semaphore + InFlight = REDIS_CONNECTIONS + 1
    /\ failed \subseteq (stopped \cup Range(finishq))
    /\ \A i \in failed :
         /\ \A n \in DOMAIN queue : queue[n].redis_timer # i
         /\ \A n \in DOMAIN pool : pool[n].redis_timer # i
         /\ \A w \in Workers :
              worker[w].pc # "idle" => worker[w].job.redis_timer # i
    /\ pq.pc \in {"get", "acquire"}

C9_Witness ==
    /\ failed # {}
    /\ failed \subseteq stopped
    /\ semaphore = REDIS_CONNECTIONS + 1
    /\ \E i \in failed : \E j \in stopped \ failed : j > i

\* The commit request with timer i is on the queue.
Queued(i) == \E n \in DOMAIN queue : queue[n].redis_timer = i

\* C36: under fair scheduling, with store calls that always return, every
\* commit request placed on the queue is eventually handed to a worker and
\* executed, and its finish() runs; no request is executed twice; every
\* permit taken by the queue processor is held by exactly one commit that is
\* in flight, so the permits and the commits in flight always add up to
\* REDIS_CONNECTIONS + 1, and all the permits are back whenever the pipeline
\* has run dry.
C36_QueuedCommitRunsOnceAndReleases ==
    /\ [](\A i \in TimerIds : attempts[i] <= 1)
    /\ [](semaphore + InFlight = SemaphoreInit)
    /\ \A i \in TimerIds :
         Queued(i) ~> (attempts[i] = 1 /\ i \in stopped /\ ~Queued(i))
    /\ (queue # <<>>) ~> (queue = <<>> /\ InFlight = 0
                            /\ semaphore = SemaphoreInit)

C36_Witness ==
    /\ ntimers >= REDIS_CONNECTIONS + 2
    /\ \A i \in 1..ntimers : attempts[i] = 1 /\ i \in stopped
    /\ failed # {}
    /\ queue = <<>>
    /\ semaphore = SemaphoreInit
    /\ \E t \in TaskIds : task[t].suspended > 0

\* C10: a commit's increment and expiry-set take effect as one atomic pair:
\* in no reachable state does a key hold a count while it has no expiry.
C10_NoKeyWithoutExpiry ==
    \A k \in Keys : redisCount[k] > 0 => redisTtl[k] # -1

\* C13: a datagram on one of whose lines a rule's key generation raises a
\* lookup error is handled to its end all the same: unless it was dropped at
\* the start, every line is run through the rules and the datagram is
\* recorded as processed.
C13_LookupErrorAbandonsOnlyItsKey ==
    \A t \in TaskIds :
        ( /\ \E i \in DOMAIN task[t].request : "K" \in task[t].request[i]
          /\ task[t].pc \in {"done", "raised"}
          /\ task[t].outcome # <<"dropped">> )
        => /\ task[t].pc = "done"
           /\ task[t].line = Len(task[t].request)
           /\ task[t].outcome = <<"processed">>

(***************************************************************************)
(* Properties of client_utils.total().                                     *)
(***************************************************************************)
\* The bucket the next turn of the loop fetches, and the store's answer.
NextBucket == Head(walk.pending)
NextAnswer == Answer(store, NextBucket)

\* last_bucket as the next turn of the loop uses it.
LastBucket ==
    IF NextBucket.resource # walk.last_resource THEN now ELSE walk.last_bucket

\* C4: a bucket whose fetch fails, or succeeds with zero records, is skipped:
\* the turn of the loop adds nothing to any total, total() does not raise,
\* and the walk goes on with the buckets that remain.
C4_FailedFetchIsSkipped ==
    [][(walk.pc = "walk" /\ walk.pending # <<>>
          /\ NextAnswer.status \in {"fail", "empty"})
       => /\ walk'.pc = "walk"
          /\ walk'.exc = None
          /\ walk'.totals = walk.totals
          /\ walk'.pending = Tail(walk.pending)]_vars

\* C5: the amount added for a fetched bucket b below the window floor F is
\* floor(value * (lastBucket - F) / (lastBucket - b)), and buckets at now-5
\* and now-65 of value 10 each, with window 60, give the total 19.
C5_ProRatedIsExactFloor ==
    /\ [][(walk.pc = "walk" /\ walk.pending # <<>>
             /\ NextAnswer.status = "ok"
             /\ NextBucket.ts < now - window
             /\ LastBucket >= now - window)
          => LET k == GroupKey(NextBucket.resource, ItemOfInterest(match_spec))
             IN  DictGet(walk'.totals, k) - DictGet(walk.totals, k)
                   = (NextAnswer.value * (LastBucket - (now - window)))
                       \div (LastBucket - NextBucket.ts)]_vars
    /\ [](( /\ walk.pc = "returned"
            /\ window = 60
            /\ \A i \in DOMAIN ScanOrder :
                 store[i] = IF ScanOrder[i].resource = <<"page", "a", "s1">>
                               /\ ScanOrder[i].ts \in {Now - 5, Now - 65}
                              THEN [status |-> "ok", value |-> 10]
                              ELSE Absent )
           => walk.totals = << [key |-> <<"a">>, value |-> 19] >> )

\* The windows a call's window is compared with: twice as long, and every
\* longer one.
LongerWindows == {2 * window} \cup {w \in Windows : w >= window}

\* C6: with the clock, the stored buckets and the fetch outcomes fixed, what
\* total() returns for a grouping key with window W is at most what it returns
\* for that key with window 2W, and with any longer window.
C6_TotalsMonotoneInWindow ==
    walk.pc = "returned" =>
        \A w \in LongerWindows :
            LET longer == RunTotal(store, now, w)
            IN  longer.pc = "returned" =>
                    \A k \in DictKeys(walk.totals) :
                        /\ k \in DictKeys(longer.totals)
                        /\ DictGet(longer.totals, k) >= DictGet(walk.totals, k)

\* A call with window 7 returns a nonzero total made of a pro-rated bucket,
\* and the call with window 14 returns more for that key.
C6_Witness ==
    /\ walk.pc = "returned"
    /\ window = 7
    /\ \E k \in DictKeys(walk.totals) :
         /\ DictGet(walk.totals, k) > 0
         /\ RunTotal(store, now, 2 * window).pc = "returned"
         /\ DictGet(RunTotal(store, now, 2 * window).totals, k)
              > DictGet(walk.totals, k)
    /\ \A i \in DOMAIN ScanOrder :
         store[i].status = "ok" => ScanOrder[i].ts < now - window

\* C16: within one resource the buckets are fetched in strictly descending
\* timestamp order, and a fetched bucket below the window floor is the last
\* one fetched for its resource, whether its fetch succeeded or not: at most
\* one out-of-window bucket per resource, and none older than it.
C16_DescendingUntilFloor ==
    \A i, j \in DOMAIN walk.fetched :
        (i < j /\ walk.fetched[i].resource = walk.fetched[j].resource)
            => /\ walk.fetched[i].ts > walk.fetched[j].ts
               /\ walk.fetched[i].ts >= now - window

\* total() has returned; for a resource it fetched a bucket inside the window
\* and then one below the floor, whose fetch failed, and left an older listed
\* bucket of that resource alone.
C16_Witness ==
    /\ walk.pc = "returned"
    /\ window = 7
    /\ store[1].status = "ok"
    /\ store[2].status = "fail"
    /\ store[4].status = "ok"
    /\ \E i \in DOMAIN walk.fetched :
         walk.fetched[i] = [resource |-> ScanOrder[2].resource,
                            ts |-> ScanOrder[2].ts]
    /\ \A i \in DOMAIN walk.fetched :
         walk.fetched[i] # [resource |-> ScanOrder[1].resource,
                            ts |-> ScanOrder[1].ts]

\* The store without its malformed keys.
WellFormedOnly(s) == [i \in DOMAIN s |-> IF i \in WellFormed THEN s[i] ELSE Absent]

\* C17: when the keys query does not succeed, total() returns an empty mapping,
\* does not raise and sends no other query; and listed keys of the wrong
\* number of parts or with a last part that is no number change nothing:
\* total() ends as it does against the store without them.
C17_ScanFailureAndMalformedKeys ==
    /\ (scan # "NOERROR" /\ walk.pc \in {"returned", "raised"}
                         /\ walk.exc # "SpecError")
         => /\ walk.pc = "returned"
            /\ walk.totals = <<>>
            /\ walk.fetched = <<>>
            /\ walk.queries = 1
    /\ (scan = "NOERROR" /\ walk.pc \in {"returned", "raised"})
         => LET clean == RunTotal(WellFormedOnly(store), now, window)
            IN  /\ walk.pc = clean.pc
                /\ walk.totals = clean.totals
                /\ walk.fetched = clean.fetched

\* total() has returned a nonzero total from a scan that listed both
\* malformed keys next to well-formed ones.
C17_Witness ==
    /\ walk.pc = "returned"
    /\ scan = "NOERROR"
    /\ \A i \in DOMAIN ScanOrder \ WellFormed : store[i] # Absent
    /\ \E k \in DictKeys(walk.totals) : DictGet(walk.totals, k) > 0

\* C18: total() called with a match spec that has no Break and no None, only
\* literals and Ignore, raises SpecError before any query is sent.
C18_NoBreakIsSpecError ==
    ((\A i \in DOMAIN match_spec : match_spec[i] \notin {None, Break})
       /\ walk.pc \notin {"idle", "start"})
    => /\ walk.pc = "raised"
       /\ walk.exc = "SpecError"
       /\ walk.queries = 0
       /\ walk.fetched = <<>>

\* total() has raised for the spec ['page', Ignore], against a store that
\* answers the keys query and lists keys.
C18_Witness ==
    /\ match_spec = <<"page", Ignore>>
    /\ walk.pc = "raised"
    /\ scan = "NOERROR"
    /\ \A i \in WellFormed : store[i] # Absent

\* The segments of a resource at the positions from i on that the match spec
\* marks Break or None, in spec order.
RECURSIVE BreakSegments(_, _)
BreakSegments(resource, i) ==
    IF i > Len(match_spec) THEN <<>>
    ELSE (IF match_spec[i] \in {None, Break} THEN <<resource[i]>> ELSE <<>>)
         \o BreakSegments(resource, i + 1)

\* C19: a bucket is accumulated under the key made of exactly its resource's
\* segments marked Break or None, in spec order: a turn of the loop changes no
\* other key's total, and a counted bucket puts its amount under that key.
\* Resources that differ only in Ignore-marked segments or beyond the spec
\* so share a total; resources that differ in a Break segment never do.
C19_GroupingKeyIsBreakSegments ==
    [][(walk.pc = "walk" /\ walk.pending # <<>>)
       => LET k == BreakSegments(NextBucket.resource, 1)
          IN  /\ \A g \in DictKeys(walk'.totals) \ {k} :
                   /\ g \in DictKeys(walk.totals)
                   /\ DictGet(walk'.totals, g) = DictGet(walk.totals, g)
              /\ DictKeys(walk.totals) \subseteq DictKeys(walk'.totals)
              /\ (NextAnswer.status = "ok"
                    /\ (NextBucket.ts >= now - window
                          \/ LastBucket >= now - window))
                   => /\ k \in DictKeys(walk'.totals)
                      /\ DictGet(walk'.totals, k) >= DictGet(walk.totals, k)
                      /\ NextBucket.ts >= now - window
                           => DictGet(walk'.totals, k)
                                = DictGet(walk.totals, k) + NextAnswer.value]_vars

\* With the spec ['page', Ignore, Break] total() has returned one total for
\* the two resources of s1, which differ in the Ignore segment, and another
\* for the resource of s2.
C19_Witness ==
    /\ match_spec = <<"page", Ignore, Break>>
    /\ walk.pc = "returned"
    /\ window = 60
    /\ store[3] # Absent /\ store[4] # Absent /\ store[5] # Absent
    /\ DictKeys(walk.totals) = {<<"s1">>, <<"s2">>}
    /\ DictGet(walk.totals, <<"s1">>) > 10
    /\ DictGet(walk.totals, <<"s2">>) = 10

\* The listed bucket keys whose resource has the grouping key g.
BucketsOf(g) ==
    {i \in WellFormed : store[i] # Absent
                        /\ BreakSegments(ScanOrder[i].resource, 1) = g}

\* The sum of the stored values of a set of bucket keys.
RECURSIVE SumStored(_)
SumStored(keys) ==
    IF keys = {} THEN 0
    ELSE LET i == CHOOSE i \in keys : TRUE
         IN  store[i].value + SumStored(keys \ {i})

\* C20: a successfully fetched bucket at or above the window floor adds its
\* full value to its resource's grouping key, and no bucket is fetched twice;
\* so when total() returns, a grouping key all of whose buckets are inside the
\* window and fetched has the exact sum of their stored values.
C20_InWindowAddsFullValueOnce ==
    /\ [][(walk.pc = "walk" /\ walk.pending # <<>>
             /\ NextAnswer.status = "ok" /\ NextBucket.ts >= now - window)
          => LET k == BreakSegments(NextBucket.resource, 1)
             IN  DictGet(walk'.totals, k)
                   = DictGet(walk.totals, k) + NextAnswer.value]_vars
    /\ [](\A i, j \in DOMAIN walk.fetched :
             i # j => walk.fetched[i] # walk.fetched[j])
    /\ [](walk.pc = "returned" /\ scan = "NOERROR"
            => \A i \in WellFormed :
                 LET g == BreakSegments(ScanOrder[i].resource, 1)
                 IN  (\A b \in BucketsOf(g) : /\ ScanOrder[b].ts >= now - window
                                              /\ store[b].status = "ok")
                       => DictGet(walk.totals, g) = SumStored(BucketsOf(g)))

\* total() has returned 110 for the key a: the values 10, 90 and 10 of three
\* buckets inside the window, of two resources.
C20_Witness ==
    /\ walk.pc = "returned"
    /\ match_spec = MatchSpec
    /\ window = 60
    /\ store[1] = Absent
    /\ store[2] = [status |-> "ok", value |-> MaxValue]
    /\ store[3] = [status |-> "ok", value |-> 10]
    /\ store[4] = [status |-> "ok", value |-> 10]
    /\ DictGet(walk.totals, <<"a">>) = MaxValue + 20

\* The last bucket fetched, and the store's answer to its fetch.
Fetched == walk.fetched[Len(walk.fetched)]
FetchedAnswer == Answer(store, Fetched)

\* The timestamps inside the window that were fetched with success for the
\* resource the walk is at.
SeenInWindow ==
    {walk.fetched[i].ts : i \in
        {j \in DOMAIN walk.fetched :
            /\ walk.fetched[j].resource = walk.last_resource
            /\ walk.fetched[j].ts >= now - window
            /\ Answer(store, walk.fetched[j]).status = "ok"}}

\* C33: last_bucket is the in-window timestamp most recently seen in the
\* walk of the resource itself (the walk is from the newest to the oldest,
\* so the least of those fetched with success), or now when the resource
\* has none yet; the buckets of the resources walked before have no part
\* in it.
C33_LastBucketIsOfTheResource ==
    walk.fetched # <<>> =>
        /\ walk.last_resource = Fetched.resource
        /\ walk.last_bucket
             = IF SeenInWindow = {} THEN now
               ELSE CHOOSE ts \in SeenInWindow : \A u \in SeenInWindow : ts <= u

\* The walk is at its third resource, whose only bucket lies below the
\* floor and is pro-rated from now, after a resource with a bucket inside
\* the window.
C33_Witness ==
    /\ walk.fetched # <<>>
    /\ walk.pc = "walk"
    /\ walk.last_resource = <<"page", "b", "s1">>
    /\ Fetched.ts < now - window
    /\ FetchedAnswer.status = "ok"
    /\ walk.last_bucket = now
    /\ \E i \in DOMAIN walk.fetched :
         /\ walk.fetched[i].resource = <<"page", "a", "s1">>
         /\ walk.fetched[i].ts >= now - window
         /\ Answer(store, walk.fetched[i]).status = "ok"
    /\ DictGet(walk.totals, <<"b">>) > 0

\* C34: for a window >= 0 last_bucket is never below the window floor when
\* a bucket is processed, the buckets below the floor included: the branch
\* "this should never happen" is not taken.
C34_LastBucketNotBelowFloor ==
    walk.fetched # <<>> => walk.last_bucket >= now - window

\* A bucket below the floor has been fetched with success, after a bucket
\* of its resource inside the window.
C34_Witness ==
    /\ walk.fetched # <<>>
    /\ window >= 0
    /\ Fetched.ts < now - window
    /\ FetchedAnswer.status = "ok"
    /\ SeenInWindow # {}

\* The sum of the values fetched with success for the grouping key k, over
\* the first n fetches.
RECURSIVE SumFetched(_, _)
SumFetched(k, n) ==
    IF n = 0 THEN 0
    ELSE SumFetched(k, n - 1)
         + (IF /\ GroupKey(walk.fetched[n].resource, ItemOfInterest(match_spec)) = k
               /\ Answer(store, walk.fetched[n]).status = "ok"
              THEN Answer(store, walk.fetched[n]).value ELSE 0)

\* C37: where a bucket is pro-rated, last_bucket - bucket is positive and
\* the portion is at least 0 and less than 1 (a float less than 1 has a
\* negative exponent), so the amount added is between 0 and the value; and
\* no total exceeds the sum of the values fetched for its grouping key.
C37_PortionIsAProperFraction ==
    /\ (walk.fetched # <<>> /\ walk.pc = "walk"
          /\ Fetched.ts < now - window /\ FetchedAnswer.status = "ok")
         => LET portion == Portion(walk.last_bucket, now - window, Fetched.ts)
                amount  == ProRated(FetchedAnswer.value, walk.last_bucket,
                                    now - window, Fetched.ts)
            IN  /\ walk.last_bucket - Fetched.ts > 0
                /\ walk.last_bucket - (now - window) >= 0
                /\ portion.m = <<>> \/ portion.e < 0
                /\ 0 <= amount /\ amount <= FetchedAnswer.value
    /\ \A i \in DOMAIN walk.totals :
         /\ walk.totals[i].value >= 0
         /\ walk.totals[i].value
              <= SumFetched(walk.totals[i].key, Len(walk.fetched))

\* A bucket of value 90 that began 5 s before a floor 60 s back, its resource
\* having a bucket 10 s back: a part of the 90, and not all of it, is added.
C37_Witness ==
    /\ walk.fetched # <<>>
    /\ walk.pc = "walk"
    /\ window = 60
    /\ Fetched = [resource |-> <<"page", "a", "s1">>, ts |-> Now - 65]
    /\ FetchedAnswer = [status |-> "ok", value |-> MaxValue]
    /\ walk.last_bucket = Now - 10
    /\ LET amount == ProRated(MaxValue, Now - 10, Now - 60, Now - 65)
       IN  0 < amount /\ amount < MaxValue

(***************************************************************************)
(* Properties of fanout.BaseName.total().                                  *)
(***************************************************************************)
\* The sum of key k's totals over the first n locations' single-store results.
RECURSIVE SumOverLocations(_, _)
SumOverLocations(k, n) ==
    IF n = 0 THEN 0
    ELSE DictGet(located[ptr[n]].totals, k) + SumOverLocations(k, n - 1)

\* C1: BaseName.total() over a name that resolves to N >= 1 locations, whose
\* single-store reconstructions all return, returns for every grouping key
\* the sum of that key's totals over the N locations, in whatever order the
\* locations complete.
C1_FanoutSumsLocations ==
    ( /\ ptr # <<>>
      /\ \A i \in DOMAIN ptr : located[ptr[i]].exc = None
      /\ fan.pc \in {"returned", "raised"} )
    => /\ fan.pc = "returned"
       /\ \A k \in {<<"a">>, <<"b">>} :
            DictGet(fan.counts, k) = SumOverLocations(k, Len(ptr))

\* C14: in a federated total over several locations of which some fail and
\* some succeed, the call returns, and returns for every grouping key the sum
\* of that key's totals over the locations that succeeded.
C14_FailedLocationContributesZero ==
    ( /\ Len(ptr) >= 2
      /\ \E i \in DOMAIN ptr : located[ptr[i]].exc # None
      /\ \E i \in DOMAIN ptr : located[ptr[i]].exc = None
      /\ fan.pc \in {"returned", "raised"} )
    => /\ fan.pc = "returned"
       /\ \A k \in {<<"a">>, <<"b">>} :
            DictGet(fan.counts, k) = SumOverLocations(k, Len(ptr))

\* C15: when the lookup yields no location (it raised, it was not answered
\* NOERROR, or the answer holds no PTR record), BaseName.total() calls
\* client_utils.total() once, against the rendezvous name itself, starts no
\* task, and returns what that call returns.
C15_NoLocationsFallsBackToName ==
    (ptr = <<>> /\ fan.pc \in {"returned", "raised"})
    => /\ fan.calls = <<Fqdn>>
       /\ fan.submitted = 0
       /\ fan.results = <<>>
       /\ direct.exc = None => fan.pc = "returned" /\ fan.counts = direct.totals
       /\ direct.exc # None => fan.pc = "raised" /\ fan.exc = direct.exc

\* The lookup failed, fanout_ is the empty list, and BaseName.total() has
\* returned the two totals of the single store behind the name.
C15_Witness ==
    /\ lookup = "SERVFAIL"
    /\ fan.cached
    /\ fan.pc = "returned"
    /\ fan.calls = <<Fqdn>>
    /\ Len(fan.counts) = 2

(***************************************************************************)
(* Properties of WatchRule.key().                                          *)
(***************************************************************************)
\* The rule defines start_ts.
Rotating == "start_ts" \in DOMAIN rule.substitutions

\* ttl / buckets seconds (ttl seconds for a rule without buckets) fit in a
\* number of ticks.
PeriodElapsed(ticks) ==
    IF "buckets" \in DOMAIN rule.substitutions
      THEN ticks * rule.substitutions["buckets"]
             >= rule.substitutions["ttl"] * TicksPerSecond
      ELSE ticks >= rule.substitutions["ttl"] * TicksPerSecond

\* C11: of two successive key generations of a rule with a rotating
\* timestamp that both return a key, the second yields another timestamp
\* than the first only if ttl / buckets seconds have passed since the first,
\* and the identical timestamp (and the identical key for identical fields)
\* otherwise.
C11_RotatesOnlyAfterPeriodSincePreviousGeneration ==
    ( /\ Rotating
      /\ Len(generated) = 2
      /\ \A i \in DOMAIN generated : generated[i].exc = None )
    => LET a == generated[1]
           b == generated[2]
       IN  /\ b.ts # a.ts => PeriodElapsed(b.at - a.at)
           /\ ~PeriodElapsed(b.at - a.at)
                => /\ b.ts = a.ts
                   /\ b.fields = a.fields => b.key = a.key

\* C12: the key that key() returns for a rule with a rotating timestamp
\* carries the rendering of the rule's start_ts as it is after the call, a
\* refresh of that call included; the call is one step, so the rule after
\* the step is the rule as the call left it.
C12_KeyCarriesStartTsOfItsCall ==
    (Rotating /\ generated # <<>> /\ generated[Len(generated)].exc = None)
    => LET g == generated[Len(generated)]
       IN  /\ rule.has_ts
           /\ g.start_ts = rule.start_ts
           /\ g.refreshed => rule.start_ts >= g.at
           /\ g.key = rule.substitutions["prefix"] \o <<";">>
                      \o rule.substitutions["matched"] \o <<";">>
                      \o RenderTs(rule.start_ts)
                      \o (IF Len(rule.keypattern) = 5
                            THEN rule.substitutions["baz"] ELSE <<>>)

\* C28: the value that a rule with a rotating timestamp emits for
\* <start_ts> is the rendering of its own bucket start, whatever the fields
\* handed to key() hold under the name start_ts.
C28_StartTsIsNotOverridden ==
    \A i \in DOMAIN generated :
        (Rotating /\ generated[i].exc = None)
        => generated[i].ts = RenderTs(generated[i].start_ts)

\* C30: in every state that key generations reach, whatever fields they are
\* handed, the bucket period of a rule with a bucket count is its ttl
\* integer-divided by that count.
C30_BucketPeriodIsTtlOverBuckets ==
    ("buckets" \in DOMAIN rule.substitutions
        /\ rule.substitutions["buckets"] # 0)
    => rule.bucket_time
         = rule.substitutions["ttl"] \div rule.substitutions["buckets"]

\* The timestamps that a text of a key may render, in seconds.
Renderable == 0..9

\* C35: the bucket start of a rule is set by its first key generation and
\* afterwards changes in a generation if and only if more than the bucket
\* period has passed since it was set; so of two successive keys of the
\* rule with different timestamps the later one's timestamp is greater by
\* more than the bucket period.
C35_BucketTimestampsAdvanceByMoreThanPeriod ==
    (Rotating /\ generated # <<>>) =>
        LET g == generated[Len(generated)]
        IN  /\ rule.has_ts
            /\ g.had_ts =>
                 ((g.start_ts # g.before_ts)
                    <=> (g.at - g.before_ts > rule.bucket_time * TicksPerSecond))
            /\ ( /\ Len(generated) = 2
                 /\ \A i \in DOMAIN generated : generated[i].exc = None
                 /\ generated[1].had_ts \/ generated[1].refreshed
                 /\ generated[1].ts # generated[2].ts )
                 => \E x, y \in Renderable :
                      /\ generated[1].ts = <<ToString(x)>>
                      /\ generated[2].ts = <<ToString(y)>>
                      /\ y - x > rule.bucket_time

\* The names whose values come from the transform of a match.
MatchNames == {"matched", "baz"}

\* C38: the key of a generation depends on the fixed fields of the rule,
\* its bucket timestamp and the fields of the current match only: a name
\* that an earlier match defined and the current one does not is undefined
\* for the current generation.
C38_KeyDependsOnCurrentMatchOnly ==
    generated # <<>> =>
        LET g == generated[Len(generated)]
            stale == MatchNames \ DOMAIN g.fields
            current == [n \in DOMAIN rule.substitutions \ stale |->
                           rule.substitutions[n]]
            expected == EmitAll(rule.keypattern, current)
        IN  /\ g.exc = expected.exc
            /\ g.exc = None => g.key = expected.text

(***************************************************************************)
(* Properties of WatchList.rule(), parse_keypattern() and generate_key().  *)
(***************************************************************************)
\* The grammar of a keypattern, read off one character at a time: outside
\* any bracket ("out"), in the name of a substitution ("sub"), in an
\* optional group ("opt") or in the name of a substitution of a group
\* ("optsub"); a name has at least one character, none of them < > { },
\* and a group has at least one substitution and no group inside it.
RECURSIVE Grammar(_, _, _, _, _)
Grammar(s, p, mode, namelen, nsubs) ==
    IF p > Len(s) THEN mode = "out"
    ELSE LET c == s[p]
         IN  CASE mode = "out" ->
                    IF c = "<" THEN Grammar(s, p + 1, "sub", 0, 0)
                    ELSE IF c = "{" THEN Grammar(s, p + 1, "opt", 0, 0)
                    ELSE Ordinary(c) /\ Grammar(s, p + 1, "out", 0, 0)
               [] mode = "sub" ->
                    IF c = ">" THEN namelen >= 1
                                    /\ Grammar(s, p + 1, "out", 0, 0)
                    ELSE Ordinary(c)
                         /\ Grammar(s, p + 1, "sub", namelen + 1, 0)
               [] mode = "opt" ->
                    IF c = "<" THEN Grammar(s, p + 1, "optsub", 0, nsubs)
                    ELSE IF c = "}" THEN nsubs >= 1
                                         /\ Grammar(s, p + 1, "out", 0, 0)
                    ELSE Ordinary(c) /\ Grammar(s, p + 1, "opt", 0, nsubs)
               [] mode = "optsub" ->
                    IF c = ">" THEN namelen >= 1
                                    /\ Grammar(s, p + 1, "opt", 0, nsubs + 1)
                    ELSE Ordinary(c)
                         /\ Grammar(s, p + 1, "optsub", namelen + 1, nsubs)

WellFormedTemplate(s) == Grammar(s, 1, "out", 0, 0)

\* C23: a keypattern with an unmatched or stray bracket, a group inside a
\* group, a bracket inside a name or a group without a substitution makes
\* WatchList.rule() raise ParseError, and leaves the rule in neither
\* rules nor port_rules, so that no key is ever generated from it.
C23_DefectiveTemplateIsRejected ==
    (watchlist.raised # <<>> /\ ~WellFormedTemplate(template))
    => /\ watchlist.raised = <<"ParseError">>
       /\ watchlist.rules = <<>>
       /\ DOMAIN watchlist.port_rules = {}
       /\ keyed = <<>>

\* rule() has raised ParseError for '{{<a>}}'.
C23_Witness ==
    /\ template = <<"{", "{", "<", "a", ">", "}", "}">>
    /\ watchlist.raised = <<"ParseError">>
    /\ watchlist.rules = <<>>

\* The names of the substitutions of a keypattern that are in no group.
OuterNames(keypattern) ==
    {keypattern[i].value :
        i \in {j \in DOMAIN keypattern : keypattern[j].spec = "SUBSTITUTION"}}

\* C24: a well-formed keypattern is accepted whatever names it holds (the
\* rule is in rules and under its binding), and key() raises KeyError,
\* returning no text, whenever a substitution outside the groups is not
\* defined when the key is generated.
C24_UndefinedSubstitutionRaisesAtGeneration ==
    /\ (watchlist.raised # <<>> /\ WellFormedTemplate(template))
       => /\ watchlist.raised = <<None>>
          /\ Len(watchlist.rules) = 1
          /\ DOMAIN watchlist.port_rules = {Binding}
          /\ watchlist.port_rules[Binding] = <<1>>
    /\ keyed # <<>>
       => LET r == watchlist.rules[1]
          IN  (\E n \in OuterNames(r.keypattern) :
                    n \notin DOMAIN r.substitutions)
              => keyed[1].exc = "KeyError" /\ keyed[1].text = <<>>

\* '<a>;<b>' was accepted, and key(a='v') has raised KeyError for b.
C24_Witness ==
    /\ template = <<"<", "a", ">", ";", "<", "b", ">">>
    /\ watchlist.raised = <<None>>
    /\ keyed # <<>>
    /\ DOMAIN keyed[1].fields = {"a"}
    /\ keyed[1].exc = "KeyError"

\* What the tokens of a keypattern are to emit: a literal its text, a
\* substitution its value, a group nothing when its substitution is not
\* defined and the whole of its content when it is.
RECURSIVE Expected(_, _)
Expected(tokens, substitutions) ==
    IF tokens = <<>> THEN <<>>
    ELSE LET tok == Head(tokens)
         IN  (CASE tok.spec = "LITERAL" -> tok.value
                [] tok.spec = "SUBSTITUTION" ->
                     IF tok.value \in DOMAIN substitutions
                       THEN substitutions[tok.value] ELSE <<>>
                [] tok.spec = "OPTIONAL" ->
                     IF tok.substitution \in DOMAIN substitutions
                       THEN Expected(tok.value, substitutions) ELSE <<>>)
             \o Expected(Tail(tokens), substitutions)

\* C25: when the substitutions outside the groups are defined, the key is
\* generated, and in it every group stands for nothing if its substitution
\* is not defined and for its whole content, in the order of the template,
\* if it is; the rest of the key is the same either way.
C25_OptionalGroupEmitsAllOrNothing ==
    keyed # <<>>
    => LET r == watchlist.rules[1]
       IN  (\A n \in OuterNames(r.keypattern) : n \in DOMAIN r.substitutions)
           => /\ keyed[1].exc = None
              /\ keyed[1].text = Expected(r.keypattern, r.substitutions)

\* C26: every group of an accepted keypattern holds exactly one
\* substitution.
C26_OptionalGroupHasOneSubstitution ==
    \A i \in DOMAIN watchlist.rules :
        \A j \in DOMAIN watchlist.rules[i].keypattern :
            LET tok == watchlist.rules[i].keypattern[j]
            IN  tok.spec = "OPTIONAL"
                => Cardinality({k \in DOMAIN tok.value :
                                  tok.value[k].spec = "SUBSTITUTION"}) = 1

\* str.split(delimiter)
RECURSIVE Split(_, _)
Split(s, delimiter) ==
    IF \A i \in DOMAIN s : s[i] # delimiter THEN <<s>>
    ELSE LET first == CHOOSE i \in DOMAIN s :
                          s[i] = delimiter /\ \A j \in 1..(i - 1) : s[j] # delimiter
         IN  <<SubSeq(s, 1, first - 1)>>
             \o Split(SubSeq(s, first + 1, Len(s)), delimiter)

\* The keypattern is substitutions with the delimiter between them.
Delimited(keypattern) ==
    /\ keypattern # <<>>
    /\ \A i \in DOMAIN keypattern :
         IF i % 2 = 1 THEN keypattern[i].spec = "SUBSTITUTION"
         ELSE keypattern[i] = Token("LITERAL", <<";">>) /\ i < Len(keypattern)

\* C27: splitting the key generated from substitutions with the delimiter
\* between them gives back the values of the substitutions, in the order
\* of the template.
C27_SplitRecoversFieldValues ==
    (keyed # <<>> /\ keyed[1].exc = None
        /\ Delimited(watchlist.rules[1].keypattern))
    => LET r == watchlist.rules[1]
       IN  Split(keyed[1].text, ";")
             = [i \in 1..((Len(r.keypattern) + 1) \div 2) |->
                   r.substitutions[r.keypattern[2 * i - 1].value]]


(***************************************************************************)
(* Properties of WatchList.match()                                         *)
(***************************************************************************)

\* The rules of the binding of the last call, in the order of their
\* registration.
RulesOf(binding) ==
    IF binding \in DOMAIN watchlist.port_rules
      THEN watchlist.port_rules[binding] ELSE <<>>

\* The match expression of the i-th rule matches the line of the last call.
Fires(i) == matched.line \in matched.before[i].substitutions["matchex"]

\* What the transform of the i-th rule returned for the line of the last
\* call.
Returned(i) == PostprocResult(matched.before[i].substitutions, matched.line)

\* The rules that are to give a pair, in the order of their registration.
Firing ==
    LET Gives(i) == Fires(i) /\ ~Returned(i).none
    IN  SelectSeq(RulesOf(matched.binding), Gives)

\* C21: match(address, port, line) returns exactly one (key, ttl) pair for
\* each rule registered under that address:port whose match expression
\* matches the line and whose transform does not signal ignore, in the
\* order of registration and with the ttl of the rule, and no pair for a
\* rule of another address:port.
C21_MatchReturnsOnePairPerFiringRule ==
    matched.binding # "" =>
        /\ matched.exc = None
        /\ Len(matched.matches) = Len(Firing)
        /\ \A n \in 1..Len(Firing) :
             /\ matched.matches[n].rule = Firing[n]
             /\ matched.matches[n].ttl
                  = matched.before[Firing[n]].substitutions["ttl"]

\* The i-th rule gave no pair, its timestamp is as it was, and the rules
\* after it were tried: each of them that fires and is not ignored has its
\* pair.
PassedOver(i) ==
    /\ matched.exc = None
    /\ \A n \in 1..Len(matched.matches) : matched.matches[n].rule # i
    /\ watchlist.rules[i].start_ts = matched.before[i].start_ts
    /\ watchlist.rules[i].has_ts = matched.before[i].has_ts
    /\ \A n \in 1..Len(Firing) :
         Firing[n] > i => \E m \in 1..Len(matched.matches) :
                              matched.matches[m].rule = Firing[n]

\* C22 as stated: a rule whose transform returns None or an empty result
\* for a line it matches gives no pair, raises no error and keeps its
\* bucket timestamp, and the rules after it are still tried.
C22_NoneOrEmptyResultIsIgnored ==
    \A n \in 1..Len(RulesOf(matched.binding)) :
        LET i == RulesOf(matched.binding)[n]
        IN  Fires(i) /\ (Returned(i).none \/ Returned(i).fields = <<>>)
              => PassedOver(i)

\* C22, amended: a rule whose transform returns None for a line it matches
\* gives no pair, raises no error and keeps its bucket timestamp, and the
\* rules after it are still tried.  (An empty dictionary is a result as any
\* other: key() is called with no updates.)
C22_NoneResultIsIgnored ==
    \A n \in 1..Len(RulesOf(matched.binding)) :
        LET i == RulesOf(matched.binding)[n]
        IN  Fires(i) /\ Returned(i).none => PassedOver(i)

\* A line that two rules match: the transform of the first, whose bucket
\* period is over, returned None, and the second gave the only pair.
C22_Witness ==
    /\ matched.line = "l12"
    /\ Returned(1).none
    /\ matched.before[1].has_ts
    /\ BucketOver(matched.before[1], matched.at)
    /\ Len(matched.matches) = 1
    /\ matched.matches[1].rule = 2

\* C39: match() for an address:port under which no rule is registered
\* returns an empty list and does not raise.
C39_UnknownBindingReturnsEmptyList ==
    (matched.binding # "" /\ matched.binding \notin DOMAIN watchlist.port_rules)
      => matched.exc = None /\ matched.matches = <<>>

\* C40: when the transform of a firing rule raises an exception, match()
\* gives no pair for that rule, does not raise, and the rules after it are
\* still tried and give their pairs.
C40_TransformExceptionIsSuppressed ==
    \A n \in 1..Len(RulesOf(matched.binding)) :
        LET i == RulesOf(matched.binding)[n]
        IN  Fires(i) /\ Returned(i).raised => PassedOver(i)

(***************************************************************************)
(* Properties of agent.main()                                              *)
(***************************************************************************)

\* C29: statistics are pure instrumentation: with statistics reporting
\* disabled (STATS falsy) the agent starts and runs its listeners as it
\* does with statistics enabled, so main() reaches run_forever() or is
\* still on its way there, whatever STATS is.
C29_StartsWithoutStatistics ==
    service.pc \in {"main", "run_forever"}

(***************************************************************************)
(* Properties of client_utils.ResolverPool                                 *)
(***************************************************************************)

\* The thread holds a Resolver: it was allocated one and has not freed it.
Holds(t) == caller[t].pc \in {"allocated", "__enter__", "with"}

\* C31: no Resolver is held by two threads at the same time, and within the
\* with block the calls of a thread run on the Resolver that was allocated
\* for it.
C31_ResolverHeldByOneThread ==
    /\ \A t, u \in PoolThreads :
         t # u /\ Holds(t) /\ Holds(u)
           => caller[t].resolver # caller[u].resolver
    /\ \A t \in PoolThreads :
         Holds(t) => caller[t].resolver \notin resolver_pool.free_list
    /\ \A t \in PoolThreads :
         caller[t].pc = "with"
           => /\ resolver_pool.contexts[t] = caller[t].resolver
              /\ caller[t].queried \in {0, caller[t].resolver}

\* Two threads are within their with blocks at once and have run a query
\* each, one of them on a Resolver that a third thread used before.
C31_Witness ==
    /\ caller["t1"].pc = "with" /\ caller["t2"].pc = "with"
    /\ caller["t1"].queried = caller["t1"].resolver
    /\ caller["t2"].queried = caller["t2"].resolver
    /\ caller["t1"].resolver # caller["t2"].resolver
    /\ caller["t3"].pc = "out"
    /\ caller["t3"].queried = caller["t1"].resolver

(***************************************************************************)
(* Properties of the agent in testing mode                                 *)
(***************************************************************************)

\* The work items the threads of the pool have taken so far.
RECURSIVE Taken(_)
Taken(timers) ==
    IF timers = {} THEN 0
    ELSE LET i == CHOOSE i \in timers : TRUE
         IN  attempts[i] + Taken(timers \ {i})

RECURSIVE Printed(_)
Printed(keys) ==
    IF keys = {} THEN 0
    ELSE LET k == CHOOSE k \in keys : TRUE
         IN  stdout[k] + Printed(keys \ {k})

\* C32: in testing mode no increment and no expiry is issued to the store,
\* every work item a thread takes has its key printed, and the permits are
\* bounded as in normal mode.
C32_TestingNeverWritesTheStore ==
    service.testing =>
        /\ \A k \in Keys : redisCount[k] = 0 /\ redisTtl[k] = -1
        /\ \A w \in Workers : worker[w].pc = "idle"
        /\ Printed(Keys) = Taken(TimerIds)
        /\ InFlight <= REDIS_CONNECTIONS + 1
        /\ semaphore + Len(pool) + Len(finishq) = SemaphoreInit

\* In testing mode a key has been printed, its permit is back, and a
\* datagram has been dropped at a full queue.
C32_Witness ==
    /\ service.testing
    /\ \E k \in Keys : stdout[k] >= 1
    /\ stopped # {}
    /\ \E t \in TaskIds :
         task[t].pc = "done" /\ task[t].outcome = <<"dropped">>
    /\ \E t \in TaskIds :
         task[t].pc = "done" /\ task[t].outcome = <<"dropped">>

====
